---------------------------- MODULE Spec2Model ----------------------------
(***************************************************************************)
(* A model of the biocomputation genetic algorithm: Rule, Candidate,       *)
(* Population and the evolutionary driver run_ga.                          *)
(*                                                                         *)
(* Representation.                                                         *)
(*   - A Rule is its HashMap<usize, char>: a function from the constrained *)
(*     positions to symbols.  A HashMap iterates in an arbitrary order, so *)
(*     every operator that iterates a rule takes the iteration order as an *)
(*     argument (a sequence enumerating the keys) and the actions choose   *)
(*     it freely.                                                          *)
(*   - A HashSet of rules or candidates is a set; where the code iterates  *)
(*     it, the iteration order is again an argument chosen freely.         *)
(*   - A Result is a record [tag |-> "Ok" | "Err", value |-> ...].         *)
(*   - Option<char> is None or the symbol; Option<usize> is Nothing or     *)
(*     Some(v).                                                            *)
(***************************************************************************)
EXTENDS Integers, Sequences, FiniteSets

VARIABLES
    ruleA, ruleB,   \* two Rule values, the inputs of the Rule/Candidate operators
    op,             \* the record of the last operator applied: its inputs and result
    ga_specs,       \* run_ga: the GaSpec
    population,     \* run_ga: the Population, [candidates, generation]
    pc,             \* run_ga: the statement to execute next
    evolution,      \* run_ga: the loop variable i
    fitness_values, \* run_ga: fitness, the Vec<CandidateFitness> of this generation
    max,            \* run_ga: the best fitness of this generation
    selection,      \* run_ga: the selected candidates
    offsprings,     \* run_ga: the children to append
    result          \* what run_ga returned, Running until it has

evalVars == <<ruleA, ruleB>>

driverVars == <<ga_specs, population, pc, evolution, fitness_values, max, selection,
                offsprings, result>>

vars == <<ruleA, ruleB, op, driverVars>>

----------------------------------------------------------------------------
(* Bounds *)

\* positions a generated rule may constrain are 0 .. MaxIndex - 1
MaxIndex == 2

\* a data set holds at most MaxExamples items
MaxExamples == 2

\* max_evolutions is at most MaxEvolutions
MaxEvolutions == 2

----------------------------------------------------------------------------
(* Generic helpers *)

None == "None"

\* Option<usize>: Nothing, or Some(v)
Nothing == <<>>

Some(v) == <<v>>

Ok(v) == [tag |-> "Ok", value |-> v]

Err(e) == [tag |-> "Err", value |-> e]

\* every sequence that enumerates the set S once: the possible iteration orders
RECURSIVE Perms(_)
Perms(S) ==
    IF S = {} THEN {<<>>}
    ELSE UNION {{<<x>> \o rest : rest \in Perms(S \ {x})} : x \in S}

\* one enumeration of the set S
RECURSIVE SetToSeq(_)
SetToSeq(S) ==
    IF S = {} THEN <<>>
    ELSE LET x == CHOOSE x \in S : TRUE IN <<x>> \o SetToSeq(S \ {x})

Min(a, b) == IF a < b THEN a ELSE b

Max(a, b) == IF a > b THEN a ELSE b

SetMax(S) == CHOOSE m \in S : \A x \in S : x <= m

----------------------------------------------------------------------------
(* rule.rs *)

\* main.rs: let alphabet = "01"
Alphabet == <<"0", "1">>

AlphabetSet == {Alphabet[k] : k \in DOMAIN Alphabet}

\* all HashMap<usize, char> values with keys in P and symbols of the alphabet
RulesOver(P) == UNION {[D -> AlphabetSet] : D \in SUBSET P}

\* Rule: #[derive(PartialEq)] on the HashMap: same length, and every entry of a in b
RuleEq(a, b) ==
    /\ Cardinality(DOMAIN a) = Cardinality(DOMAIN b)
    /\ \A k \in DOMAIN a : k \in DOMAIN b /\ b[k] = a[k]

\* input.chars().nth(index): None past the end of the input
CharsNth(input, index) == IF index < Len(input) THEN input[index + 1] ELSE None

RECURSIVE EvaluateFrom(_, _, _, _)
EvaluateFrom(rule, order, input, k) ==
    IF k > Len(order) THEN Ok(TRUE)
    ELSE LET index == order[k]
             ch == CharsNth(input, index)
         IN IF ch = None THEN Err("IndexOutOfRange")
            ELSE IF ch # rule[index] THEN Ok(FALSE)
            ELSE EvaluateFrom(rule, order, input, k + 1)

\* Rule::evaluate with the comparison inverted: false on the first agreeing constraint
RECURSIVE EvaluateInverted(_, _, _)
EvaluateInverted(rule, order, input) ==
    IF order = <<>> THEN Ok(TRUE)
    ELSE LET ch == CharsNth(input, Head(order))
         IN IF ch = None THEN Err("IndexOutOfRange")
            ELSE IF ch = rule[Head(order)] THEN Ok(FALSE)
            ELSE EvaluateInverted(rule, Tail(order), input)

\* Rule::evaluate, the constraints visited in the given order
Evaluate(rule, order, input) == EvaluateFrom(rule, order, input, 1)

\* entries.sort_by_key(|(&index, _)| index): a stable sort of the keys
RECURSIVE InsertSorted(_, _)
InsertSorted(sorted, index) ==
    IF sorted = <<>> THEN <<index>>
    ELSE IF index < Head(sorted) THEN <<index>> \o sorted
    ELSE <<Head(sorted)>> \o InsertSorted(Tail(sorted), index)

RECURSIVE SortByKey(_)
SortByKey(entries) ==
    IF entries = <<>> THEN <<>>
    ELSE InsertSorted(SortByKey(SubSeq(entries, 1, Len(entries) - 1)), entries[Len(entries)])

\* while *index > output.len() { output.push('_') }
RECURSIVE PadTo(_, _)
PadTo(output, index) ==
    IF index > Len(output) THEN PadTo(Append(output, "_"), index) ELSE output

RECURSIVE ToStringFrom(_, _, _, _)
ToStringFrom(rule, entries, k, output) ==
    IF k > Len(entries) THEN output
    ELSE LET index == entries[k]
         IN ToStringFrom(rule, entries, k + 1, Append(PadTo(output, index), rule[index]))

\* to_string without the sort of its entries
ToStringUnsorted(rule, order) == ToStringFrom(rule, order, 1, <<>>)

\* impl ToString for Rule, with the entries collected in the given iteration order
ToString(rule, order) == ToStringFrom(rule, SortByKey(order), 1, <<>>)

\* impl Hash for Rule: what is fed to the hasher, the Debug string (= to_string)
RuleHash(rule, order) == ToString(rule, order)

----------------------------------------------------------------------------
(* candidate.rs *)

\* a labeled example: the symbol string (DataItem::as_str) and its label (output)
DataItems(width) == [input : [1..width -> AlphabetSet], output : {"0", "1"}]

\* the iteration orders of the rules of a set: one order of the keys per rule
OrdersOf(rules) ==
    {f \in [rules -> UNION {Perms(DOMAIN r) : r \in rules}] :
        \A r \in rules : f[r] \in Perms(DOMAIN r)}

\* Candidate: PartialEq compares the rule sets only
CandidateEq(a, b) == a.rules = b.rules

\* Candidate::from_rules
FromRules(rules) == [rules |-> rules, mutation_count |-> 0, birth_generation_id |-> Nothing]

\* the inner loop of calculate_fitness over one data item: the rules are visited in
\* the order ruleSeq and the first one whose result equals the label ends the loop
\* (fitness += 1; break), an evaluation error ends the whole call (?)
RECURSIVE FitnessOfItemFrom(_, _, _, _)
FitnessOfItemFrom(ruleSeq, orders, item, k) ==
    IF k > Len(ruleSeq) THEN Ok(0)
    ELSE LET r == Evaluate(ruleSeq[k], orders[ruleSeq[k]], item.input)
         IN IF r.tag = "Err" THEN r
            ELSE IF (IF r.value THEN "1" ELSE "0") = item.output THEN Ok(1)
            ELSE FitnessOfItemFrom(ruleSeq, orders, item, k + 1)

\* the same loop without its break: every rule whose result equals the label counts
RECURSIVE FitnessOfItemNoBreak(_, _, _)
FitnessOfItemNoBreak(ruleSeq, orders, item) ==
    IF ruleSeq = <<>> THEN Ok(0)
    ELSE LET r == Evaluate(Head(ruleSeq), orders[Head(ruleSeq)], item.input)
             rest == FitnessOfItemNoBreak(Tail(ruleSeq), orders, item)
         IN IF r.tag = "Err" THEN r
            ELSE IF rest.tag = "Err" THEN rest
            ELSE IF (IF r.value THEN "1" ELSE "0") = item.output
                 THEN Ok(rest.value + 1) ELSE rest

FitnessOfItem(ruleSeq, orders, item) == FitnessOfItemFrom(ruleSeq, orders, item, 1)

RECURSIVE FitnessFrom(_, _, _, _, _)
FitnessFrom(ruleSeq, orders, data_set, j, fitness) ==
    IF j > Len(data_set) THEN Ok(fitness)
    ELSE LET r == FitnessOfItem(ruleSeq, orders, data_set[j])
         IN IF r.tag = "Err" THEN r
            ELSE FitnessFrom(ruleSeq, orders, data_set, j + 1, fitness + r.value)

\* Candidate::calculate_fitness, the rules iterated in the order ruleSeq and each
\* rule's constraints in the order orders[rule]
CalculateFitness(ruleSeq, orders, data_set) == FitnessFrom(ruleSeq, orders, data_set, 1, 0)

\* the order of chars in Rust: '0' < '1' < '_'
CharRank(c) == IF c = "0" THEN 48 ELSE IF c = "1" THEN 49 ELSE 95

\* String's Ord: lexicographic, a proper prefix first
RECURSIVE StrLess(_, _)
StrLess(s, t) ==
    IF t = <<>> THEN FALSE
    ELSE IF s = <<>> THEN TRUE
    ELSE IF CharRank(Head(s)) # CharRank(Head(t)) THEN CharRank(Head(s)) < CharRank(Head(t))
    ELSE StrLess(Tail(s), Tail(t))

\* the sort key of Candidate::hash, (rule.len(), rule.to_string()), compared as a tuple
RuleKeyLess(a, oa, b, ob) ==
    \/ Cardinality(DOMAIN a) < Cardinality(DOMAIN b)
    \/ /\ Cardinality(DOMAIN a) = Cardinality(DOMAIN b)
       /\ StrLess(ToString(a, oa), ToString(b, ob))

RECURSIVE InsertRuleSorted(_, _, _)
InsertRuleSorted(sorted, rule, orders) ==
    IF sorted = <<>> THEN <<rule>>
    ELSE IF RuleKeyLess(rule, orders[rule], Head(sorted), orders[Head(sorted)])
         THEN <<rule>> \o sorted
    ELSE <<Head(sorted)>> \o InsertRuleSorted(Tail(sorted), rule, orders)

RECURSIVE SortRules(_, _)
SortRules(ruleSeq, orders) ==
    IF ruleSeq = <<>> THEN <<>>
    ELSE InsertRuleSorted(SortRules(SubSeq(ruleSeq, 1, Len(ruleSeq) - 1), orders),
                          ruleSeq[Len(ruleSeq)], orders)

\* impl Hash for Candidate: the rules collected in iteration order, sorted by key,
\* and the Vec hashed: its elements' hashes in order
CandidateHash(ruleSeq, orders) ==
    LET sorted == SortRules(ruleSeq, orders)
    IN [k \in 1..Len(sorted) |-> RuleHash(sorted[k], orders[sorted[k]])]

----------------------------------------------------------------------------
(* rule.rs, candidate.rs, population.rs: random generation *)

Panic(what) == [tag |-> "Panic", value |-> what]

\* rng.gen_range(low, high): the values it can return; it panics when low >= high
GenRange(low, high) == low..(high - 1)

\* HashMap::insert of a new key
MapInsert(map, key, value) ==
    [k \in DOMAIN map \cup {key} |-> IF k = key THEN value ELSE map[k]]

\* HashMap::remove
MapRemove(map, key) == [k \in DOMAIN map \ {key} |-> map[k]]

RECURSIVE RuleGenerateLoop(_, _, _, _)
RuleGenerateLoop(spec, number_of_constraints, constraints, consecutive_fails) ==
    IF Cardinality(DOMAIN constraints) >= number_of_constraints THEN {constraints}
    ELSE UNION {
        IF index \in DOMAIN constraints
        THEN IF consecutive_fails + 1 >= spec.max_rule_generation_consecutive_fail
             THEN {constraints}
             ELSE RuleGenerateLoop(spec, number_of_constraints, constraints,
                                   consecutive_fails + 1)
        ELSE UNION {
            RuleGenerateLoop(spec, number_of_constraints,
                             MapInsert(constraints, index, spec.alphabet[character_index + 1]), 0)
            : character_index \in GenRange(0, Len(spec.alphabet))}
        : index \in GenRange(0, spec.max_index)}

\* Rule::generate: every rule it can return
RuleGenerate(spec) ==
    UNION {RuleGenerateLoop(spec, number_of_constraints, <<>>, 0)
           : number_of_constraints \in GenRange(spec.min_rule_constraints,
                                                spec.max_rule_constraints)}

RECURSIVE CandidateGenerateLoop(_, _, _, _, _)
CandidateGenerateLoop(spec, generated, number_of_rules, rules, consecutive_fails) ==
    IF Cardinality(rules) >= number_of_rules THEN {rules}
    ELSE UNION {
        IF rule \in rules
        THEN IF consecutive_fails + 1 >= spec.initial_generation.rules.rng_fail_retries
             THEN {rules}
             ELSE CandidateGenerateLoop(spec, generated, number_of_rules, rules,
                                        consecutive_fails + 1)
        ELSE CandidateGenerateLoop(spec, generated, number_of_rules, rules \cup {rule}, 0)
        : rule \in generated}

\* Candidate::generate: every candidate it can return
CandidateGenerate(spec) ==
    LET generated == RuleGenerate(spec)
    IN {[rules |-> rules, mutation_count |-> 0, birth_generation_id |-> Nothing]
        : rules \in UNION {CandidateGenerateLoop(spec, generated, number_of_rules, {}, 0)
                           : number_of_rules \in GenRange(spec.initial_generation.rules.min,
                                                          spec.initial_generation.rules.max)}}

\* Population::contains: HashSet::contains under Candidate's equality
Contains(candidates, candidate) == \E member \in candidates : CandidateEq(member, candidate)

\* HashSet::insert keeping an existing member whatever its fields other than rules:
\* equality derived from all fields instead of the rule set
InsertByFields(candidates, candidate) ==
    [candidates |-> candidates \cup {candidate}, inserted |-> candidate \notin candidates]

\* HashSet::replace instead of insert: the new value takes an equal member's place
InsertReplacing(candidates, candidate) ==
    [candidates |-> {member \in candidates : ~CandidateEq(member, candidate)} \cup {candidate},
     inserted |-> ~Contains(candidates, candidate)]

\* Population::insert: HashSet::insert, which keeps an equal member and returns false
Insert(candidates, candidate) ==
    IF Contains(candidates, candidate)
    THEN [candidates |-> candidates, inserted |-> FALSE]
    ELSE [candidates |-> candidates \cup {candidate}, inserted |-> TRUE]

\* Population::remove: HashSet::remove of the member equal to the candidate
Remove(candidates, candidate) ==
    [candidates |-> {member \in candidates : ~CandidateEq(member, candidate)},
     removed |-> Contains(candidates, candidate)]

\* Candidate::set_birth_generation_id
SetBirthGenerationId(candidate, id) == [candidate EXCEPT !.birth_generation_id = Some(id)]

RECURSIVE AppendFrom(_, _, _, _, _)
AppendFrom(candidates, generation, list, k, added) ==
    IF k > Len(list) THEN [candidates |-> candidates, added |-> added]
    ELSE LET item == SetBirthGenerationId(list[k], generation)
             ins == Insert(candidates, item)
         IN AppendFrom(ins.candidates, generation, list, k + 1,
                       IF ins.inserted THEN added + 1 ELSE added)

\* Population::append
PopulationAppend(candidates, generation, list) == AppendFrom(candidates, generation, list, 1, 0)

RECURSIVE PopulationGenerateLoop(_, _, _, _, _)
PopulationGenerateLoop(spec, generated, number_of_candidates, candidates, consecutive_fails) ==
    IF Cardinality(candidates) >= number_of_candidates THEN {candidates}
    ELSE UNION {
        LET ins == Insert(candidates, SetBirthGenerationId(candidate, 0))
        IN IF ~ins.inserted
           THEN IF consecutive_fails + 1 >= spec.initial_generation.candidates.rng_fail_retries
                THEN {candidates}
                ELSE PopulationGenerateLoop(spec, generated, number_of_candidates,
                                            candidates, consecutive_fails + 1)
           ELSE PopulationGenerateLoop(spec, generated, number_of_candidates,
                                       ins.candidates, 0)
        : candidate \in generated}

\* Population::generate: every candidate set it can return (its generation is 1)
PopulationGenerate(spec) ==
    LET generated == CandidateGenerate(spec)
    IN UNION {PopulationGenerateLoop(spec, generated, number_of_candidates, {}, 0)
              : number_of_candidates \in GenRange(spec.initial_generation.candidates.min,
                                                  spec.initial_generation.candidates.max)}

----------------------------------------------------------------------------
(* population.rs: calculate_fitness; selection.rs *)

\* every result Candidate::calculate_fitness can give for the candidate, over the
\* iteration orders of its rule set and of each rule's constraints
CandidateFitnessOutcomes(candidate, data_set) ==
    {CalculateFitness(ruleSeq, orders, data_set)
     : ruleSeq \in Perms(candidate.rules), orders \in OrdersOf(candidate.rules)}

\* fitness_values.sort_by_key(fitness) applied to the entries pushed in the set's
\* iteration order: the sort is stable, so over all iteration orders it gives every
\* ascending arrangement of the entries
RECURSIVE SortByFitness(_)
SortByFitness(entries) ==
    IF entries = {} THEN {<<>>}
    ELSE LET lowest == CHOOSE e \in entries : \A x \in entries : e.fitness <= x.fitness
         IN UNION {{<<e>> \o rest : rest \in SortByFitness(entries \ {e})}
                   : e \in {x \in entries : x.fitness = lowest.fitness}}

\* Population::calculate_fitness: the first candidate whose fitness is an error
\* ends the call with that error (?); otherwise the sorted Vec<CandidateFitness>
PopulationCalculateFitness(candidates, data_set) ==
    LET outcomes == [c \in candidates |-> CandidateFitnessOutcomes(c, data_set)]
        errors == UNION {{r \in outcomes[c] : r.tag = "Err"} : c \in candidates}
        values == {f \in [candidates -> 0..Len(data_set)] :
                     \A c \in candidates : Ok(f[c]) \in outcomes[c]}
    IN errors \cup
       UNION {{Ok(list) : list \in SortByFitness({[candidate |-> c, fitness |-> f[c]]
                                                  : c \in candidates})}
              : f \in values}

\* CandidateFitness: #[derive(PartialEq)] over candidate (by rule set) and fitness
CandidateFitnessEq(a, b) == CandidateEq(a.candidate, b.candidate) /\ a.fitness = b.fitness

\* Vec::contains
VecContains(list, x) == \E k \in DOMAIN list : CandidateFitnessEq(list[k], x)

\* the loop choosing one tournament entrant (selection.rs 96-114)
RECURSIVE TournamentIndex(_, _, _, _)
TournamentIndex(candidates, results, duplicates, failures) ==
    IF Len(candidates) = 0 THEN {Panic("gen_range")}
    ELSE UNION {
        IF duplicates.setting = "allow" THEN {Ok(rng)}
        ELSE IF VecContains(results, candidates[rng + 1])
             THEN IF failures + 1 >= duplicates.retries THEN {Err("RngFail")}
                  ELSE TournamentIndex(candidates, results, duplicates, failures + 1)
             ELSE {Ok(rng)}
        : rng \in GenRange(0, Len(candidates))}

\* one tournament: best is <<>> (None) or <<index>> of the best entrant so far
RECURSIVE TournamentBest(_, _, _, _, _)
TournamentBest(candidates, results, strategy, i, best) ==
    IF i >= strategy.tournament_size
    THEN {IF best = <<>> THEN Err("EmptyCandidates") ELSE Ok(candidates[best[1] + 1])}
    ELSE UNION {
        IF index.tag # "Ok" THEN {index}
        ELSE TournamentBest(candidates, results, strategy, i + 1,
                IF best = <<>> THEN <<index.value>>
                ELSE IF candidates[index.value + 1].fitness > candidates[best[1] + 1].fitness
                     THEN <<index.value>> ELSE best)
        : index \in TournamentIndex(candidates, results, strategy.duplicates, 0)}

RECURSIVE TournamentLoop(_, _, _)
TournamentLoop(candidates, results, strategy) ==
    IF Len(results) >= strategy.selection_size THEN {Ok(results)}
    ELSE UNION {
        IF best.tag # "Ok" THEN {best}
        ELSE TournamentLoop(candidates, Append(results, best.value), strategy)
        : best \in TournamentBest(candidates, results, strategy, 0, <<>>)}

\* TournamentSelection::select: every result it can give
TournamentSelect(candidates, strategy) == TournamentLoop(candidates, <<>>, strategy)

RECURSIVE SumFitness(_)
SumFitness(candidates) ==
    IF candidates = <<>> THEN 0 ELSE Head(candidates).fitness + SumFitness(Tail(candidates))

\* the scan of one wheel spin (selection.rs 153-160): the index selected, or 0 for
\* None, and the accumulator it leaves behind
RECURSIVE RouletteScan(_, _, _, _)
RouletteScan(candidates, rng, k, cumulative_total) ==
    IF k > Len(candidates) THEN [selected |-> 0, cumulative_total |-> cumulative_total]
    ELSE IF rng < cumulative_total + candidates[k].fitness
         THEN [selected |-> k, cumulative_total |-> cumulative_total + candidates[k].fitness]
         ELSE RouletteScan(candidates, rng, k + 1, cumulative_total + candidates[k].fitness)

\* the loop with the accumulator set back to 0 before every scan
RECURSIVE RouletteLoopResetting(_, _, _, _, _, _)
RouletteLoopResetting(candidates, strategy, rng, results, cumulative_total, failures) ==
    IF Len(results) >= strategy.selection_size THEN Ok(results)
    ELSE LET scan == RouletteScan(candidates, rng, 1, 0)
         IN IF scan.selected = 0 THEN Err("EmptyCandidates")
            ELSE IF strategy.duplicates.setting = "disallow"
                    /\ VecContains(results, candidates[scan.selected])
                 THEN IF failures + 1 >= strategy.duplicates.retries THEN Err("RngFail")
                      ELSE RouletteLoopResetting(candidates, strategy, rng, results,
                                                 scan.cumulative_total, failures + 1)
                 ELSE RouletteLoopResetting(candidates, strategy, rng,
                                            Append(results, candidates[scan.selected]),
                                            scan.cumulative_total, 0)

\* the loop of selection.rs 151-175: one scan per pass, the accumulator carried on
RECURSIVE RouletteLoop(_, _, _, _, _, _)
RouletteLoop(candidates, strategy, rng, results, cumulative_total, failures) ==
    IF Len(results) >= strategy.selection_size THEN Ok(results)
    ELSE LET scan == RouletteScan(candidates, rng, 1, cumulative_total)
         IN IF scan.selected = 0 THEN Err("EmptyCandidates")
            ELSE IF strategy.duplicates.setting = "disallow"
                    /\ VecContains(results, candidates[scan.selected])
                 THEN IF failures + 1 >= strategy.duplicates.retries THEN Err("RngFail")
                      ELSE RouletteLoop(candidates, strategy, rng, results,
                                        scan.cumulative_total, failures + 1)
                 ELSE RouletteLoop(candidates, strategy, rng,
                                   Append(results, candidates[scan.selected]),
                                   scan.cumulative_total, 0)

\* RouletteSelection::select: one draw in [0, total), which panics when total is 0
RouletteSelect(candidates, strategy) ==
    LET total == SumFitness(candidates)
    IN IF total = 0 THEN {Panic("gen_range")}
       ELSE {RouletteLoop(candidates, strategy, rng, <<>>, 0, 0) : rng \in GenRange(0, total)}

\* SelectionStrategy::select
Select(candidates, strategy) ==
    IF strategy.type = "tournament" THEN TournamentSelect(candidates, strategy)
    ELSE RouletteSelect(candidates, strategy)

----------------------------------------------------------------------------
(* crossover.rs *)

\* iter().take(n) and iter().skip(n) over a sequence.  A usize is held as the integer
\* of least magnitude congruent to it modulo 2^64, so a negative n stands for
\* 2^64 + n, which is past the end of every sequence
Take(seq, n) == IF n < 0 THEN seq ELSE SubSeq(seq, 1, Min(n, Len(seq)))

Skip(seq, n) == IF n < 0 THEN <<>> ELSE SubSeq(seq, Min(n, Len(seq)) + 1, Len(seq))

Reverse(seq) == [k \in 1..Len(seq) |-> seq[Len(seq) + 1 - k]]

\* a.zip(b): as long as the shorter of the two
Zip(a, b) == [k \in 1..Min(Len(a), Len(b)) |-> <<a[k], b[k]>>]

\* Vec<(usize, usize)>::contains
PairsContain(matchups, pair) == \E k \in DOMAIN matchups : matchups[k] = pair

\* the probe for an unused pair (crossover.rs 118-127): <<matchup>>, or <<>> for
\* continue 'main
RECURSIVE MatchupProbe(_, _, _, _, _)
MatchupProbe(matchups, candidate_index, matchup, len, checks) ==
    IF ~PairsContain(matchups, <<candidate_index, matchup>>) THEN <<matchup>>
    ELSE IF checks >= len THEN <<>>
    ELSE MatchupProbe(matchups, candidate_index, (matchup + 1) % len, len, checks + 1)

RECURSIVE RandomMatchupFrom(_, _, _, _)
RandomMatchupFrom(len, strategy, candidate_index, matchups) ==
    IF candidate_index >= len THEN {matchups}
    ELSE UNION {
        LET matchup == IF ~strategy.allow_asexual /\ drawn = candidate_index
                       THEN (drawn + 1) % len ELSE drawn
            probed == IF ~strategy.allow_duplicates
                      THEN MatchupProbe(matchups, candidate_index, matchup, len, 0)
                      ELSE <<matchup>>
        IN RandomMatchupFrom(len, strategy, candidate_index + 1,
                             IF probed = <<>> THEN matchups
                             ELSE Append(matchups, <<candidate_index, probed[1]>>))
        : drawn \in GenRange(0, len)}

\* the matchup with LeastFittest pairing without .rev()
MatchupUnreversed(candidates, strategy) ==
    LET len == Len(candidates)
    IN IF strategy.type \in {"least_fittest", "next_fittest"}
       THEN IF len = 0 THEN {Panic("overflow"), Ok(<<>>)}
            ELSE {Ok(Zip(Take(candidates, len - 1), Skip(candidates, 1)))}
       ELSE IF len = 1 /\ ~strategy.allow_asexual
            THEN {Err("CantGenerateNonAsexualMatchupWithOneCandidate")}
            ELSE IF len = 0 THEN {Panic("overflow")}
            ELSE {Ok([k \in DOMAIN matchups |->
                        <<candidates[matchups[k][1] + 1], candidates[matchups[k][2] + 1]>>])
                  : matchups \in RandomMatchupFrom(len, strategy, 0, <<>>)}

\* CrossoverStrategy::matchup: every result it can give, the pairs as a sequence.
\* candidates.len() - 1 underflows on an empty selection: a panic where overflow is
\* checked; where it wraps, take(usize::MAX) of nothing pairs nothing and
\* Vec::with_capacity(usize::MAX) panics
Matchup(candidates, strategy) ==
    LET len == Len(candidates)
    IN IF strategy.type = "least_fittest"
       THEN IF len = 0 THEN {Panic("overflow"), Ok(<<>>)}
            ELSE {Ok(Zip(Take(candidates, len - 1), Reverse(Skip(candidates, 1))))}
       ELSE IF strategy.type = "next_fittest"
       THEN IF len = 0 THEN {Panic("overflow"), Ok(<<>>)}
            ELSE {Ok(Zip(Take(candidates, len - 1), Skip(candidates, 1)))}
       ELSE IF len = 1 /\ ~strategy.allow_asexual
            THEN {Err("CantGenerateNonAsexualMatchupWithOneCandidate")}
            ELSE IF len = 0 THEN {Panic("overflow")}
            ELSE {Ok([k \in DOMAIN matchups |->
                        <<candidates[matchups[k][1] + 1], candidates[matchups[k][2] + 1]>>])
                  : matchups \in RandomMatchupFrom(len, strategy, 0, <<>>)}

\* SplitAtB with the mirroring left out
SplitAtBUnmirrored(a, b, split_at_a, mirroring) == split_at_a

\* the split position in the second parent (crossover.rs 149-165)
SplitAtB(a, b, split_at_a, mirroring) ==
    LET len_b == Cardinality(b.candidate.rules)
        mirrored == Max(len_b, split_at_a) - Min(len_b, split_at_a)
    IN IF mirroring = "always_mirror" THEN mirrored
       ELSE IF mirroring = "mirror_if_asexual"
            THEN IF CandidateFitnessEq(a, b) THEN mirrored ELSE split_at_a
       ELSE split_at_a

\* the elements of a sequence, collected into a HashSet
Collect(seq) == {seq[k] : k \in DOMAIN seq}

\* the two children of one pair under SinglePointAtIndex, ra and rb the parents'
\* rules in their sets' iteration order
SinglePointAtIndexChildren(a, b, ra, rb, split_at, mirroring) ==
    LET split_at_a == split_at
        split_at_b == SplitAtB(a, b, split_at_a, mirroring)
        first_child == Collect(Take(ra, split_at_a) \o Skip(rb, split_at_b))
        second_child == Collect(Take(rb, split_at_b) \o Skip(ra, split_at_a))
    IN <<FromRules(first_child), FromRules(second_child)>>

RECURSIVE MateFrom(_, _, _, _, _)
MateFrom(matchup, iteration, strategy, k, results) ==
    IF k > Len(matchup) THEN results
    ELSE LET a == matchup[k][1]
             b == matchup[k][2]
         IN MateFrom(matchup, iteration, strategy, k + 1,
                     results \o SinglePointAtIndexChildren(a, b,
                                    iteration[a.candidate.rules],
                                    iteration[b.candidate.rules],
                                    strategy.mating_strategy.split_at,
                                    strategy.options.mirroring))

\* the iteration orders of the selected candidates' rule sets: one per candidate
RuleSetOrders(candidates) ==
    LET sets == {candidates[k].candidate.rules : k \in DOMAIN candidates}
    IN {f \in [sets -> UNION {Perms(rules) : rules \in sets}] :
          \A rules \in sets : f[rules] \in Perms(rules)}

\* CrossoverStrategy::crossover with the SinglePointAtIndex mating strategy: every
\* result it can give
Crossover(candidates, strategy) ==
    UNION {
        IF matchup.tag # "Ok" THEN {matchup}
        ELSE {Ok(MateFrom(matchup.value, iteration, strategy, 1, <<>>))
              : iteration \in RuleSetOrders(candidates)}
        : matchup \in Matchup(candidates, strategy.matchup_strategy)}

----------------------------------------------------------------------------
(* mutation.rs *)

\* Option<usize>::unwrap_or_default
UnwrapOrDefault(option) == IF option = Nothing THEN 0 ELSE option[1]

\* rng.gen_ratio(chance, 100): never at 0, always at 100
GenRatio(numerator, denominator) ==
    IF numerator = 0 THEN {FALSE} ELSE IF numerator >= denominator THEN {TRUE} ELSE BOOLEAN

\* 2^64 modulo m, for the cast of a negative isize to usize
TwoTo64Mod(m) ==
    LET a == 65536 % m
        b == (a * a) % m
    IN (b * b) % m

\* (delta as usize) % max_index
DeltaAsUsizeMod(delta, max_index) ==
    IF delta >= 0 THEN delta % max_index
    ELSE (TwoTo64Mod(max_index) + (delta % max_index)) % max_index

\* the exchange of the values at two keys (mutation.rs 90-100, 124-134)
SwapKeys(constraints, constraint_key, new_key) ==
    LET value_at_new_key == IF new_key \in DOMAIN constraints
                            THEN <<constraints[new_key]>> ELSE <<>>
        without_new == MapRemove(constraints, new_key)
        value_at_current_key == IF constraint_key \in DOMAIN without_new
                                THEN <<without_new[constraint_key]>> ELSE <<>>
        without_both == MapRemove(without_new, constraint_key)
        moved == IF value_at_current_key # <<>>
                 THEN MapInsert(without_both, new_key, value_at_current_key[1])
                 ELSE without_both
    IN IF value_at_new_key # <<>>
       THEN MapInsert(moved, constraint_key, value_at_new_key[1])
       ELSE moved

\* ConstraintSwap; + binds after %, so the new key is constraint_key + (delta % max_index)
ConstraintSwap(rule, constraint_key, delta, max_index) ==
    {Ok(SwapKeys(rule, constraint_key, constraint_key + DeltaAsUsizeMod(delta, max_index)))}

\* the relocation of the value at constraint_key to an unconstrained key (138-142)
MoveKey(constraints, constraint_key, new_key) ==
    IF constraint_key \in DOMAIN constraints
    THEN MapInsert(MapRemove(constraints, constraint_key), new_key,
                   constraints[constraint_key])
    ELSE constraints

\* ConstraintRandomize: the loop drawing a key (108-121), then the move
RECURSIVE ConstraintRandomize(_, _, _, _, _, _)
ConstraintRandomize(rule, constraint_key, variant, max_index, swap, fails) ==
    UNION {
        IF rng_index \in DOMAIN rule
        THEN IF fails >= variant.retries THEN {Err("RngFail")}
             ELSE ConstraintRandomize(rule, constraint_key, variant, max_index,
                                      swap \/ variant.swap_if_fail, fails + 1)
        ELSE IF swap THEN {Ok(SwapKeys(rule, constraint_key, rng_index))}
             ELSE {Ok(MoveKey(rule, constraint_key, rng_index))}
        : rng_index \in GenRange(0, max_index)}

\* alphabet.chars().nth(pos).unwrap()
AlphabetNth(alphabet, pos) ==
    IF pos < Len(alphabet) THEN Ok(alphabet[pos + 1]) ELSE Panic("unwrap")

\* ConstraintValueRandomize: the ratio and the range are taken from max_index
ConstraintValueRandomize(rule, constraint_key, alphabet, max_index) ==
    LET drawn == {AlphabetNth(alphabet, pos) : pos \in GenRange(0, max_index)}
        set == {IF new_char.tag = "Ok"
                THEN Ok(MapInsert(rule, constraint_key, new_char.value))
                ELSE new_char : new_char \in drawn}
    IN IF constraint_key \in DOMAIN rule
       THEN UNION {IF remove THEN {Ok(MapRemove(rule, constraint_key))} ELSE set
                   : remove \in GenRatio(1, max_index + 1)}
       ELSE set

\* the body of the loop over the positions for one position (mutation.rs 87-175)
MutateConstraint(rule, constraint_key, variant, spec) ==
    IF variant.type = "constraint_swap"
    THEN ConstraintSwap(rule, constraint_key, variant.delta, spec.max_index)
    ELSE IF variant.type = "constraint_randomize"
    THEN ConstraintRandomize(rule, constraint_key, variant, spec.max_index, FALSE, 0)
    ELSE ConstraintValueRandomize(rule, constraint_key, spec.alphabet, spec.max_index)

\* for constraint_key in 0..max_index: the results are Ok([rule, ran]) or the error
RECURSIVE MutateRuleFrom(_, _, _, _, _)
MutateRuleFrom(rule, strategy, spec, constraint_key, ran) ==
    IF constraint_key >= spec.max_index THEN {Ok([rule |-> rule, ran |-> ran])}
    ELSE UNION {
        IF ~gate THEN MutateRuleFrom(rule, strategy, spec, constraint_key + 1, ran)
        ELSE UNION {
            IF mutated.tag # "Ok" THEN {mutated}
            ELSE MutateRuleFrom(mutated.value, strategy, spec, constraint_key + 1, TRUE)
            : mutated \in MutateConstraint(rule, constraint_key, strategy.variant, spec)}
        : gate \in GenRatio(UnwrapOrDefault(strategy.options.chance_per_constraint), 100)}

\* for rule in rules.iter_mut(): the results are Ok([rules, ran]) or the error
RECURSIVE MutateRulesFrom(_, _, _, _, _)
MutateRulesFrom(rules, strategy, spec, k, ran) ==
    IF k > Len(rules) THEN {Ok([rules |-> rules, ran |-> ran])}
    ELSE UNION {
        IF ~gate THEN MutateRulesFrom(rules, strategy, spec, k + 1, ran)
        ELSE UNION {
            IF mutated.tag # "Ok" THEN {mutated}
            ELSE MutateRulesFrom([rules EXCEPT ![k] = mutated.value.rule], strategy, spec,
                                 k + 1, mutated.value.ran)
            : mutated \in MutateRuleFrom(rules[k], strategy, spec, 0, ran)}
        : gate \in GenRatio(UnwrapOrDefault(strategy.options.chance_per_rule), 100)}

\* the commit test without the look-up in the population
CommitAllowedUnchecked(new_candidate, candidate, candidates, changes) ==
    /\ ~CandidateEq(new_candidate, candidate)
    /\ ~\E k \in DOMAIN changes : CandidateEq(changes[k][2], new_candidate)

\* the commit test of a mutated candidate (mutation.rs 181-188)
CommitAllowed(new_candidate, candidate, candidates, changes) ==
    /\ ~CandidateEq(new_candidate, candidate)
    /\ ~Contains(candidates, new_candidate)
    /\ ~\E k \in DOMAIN changes : CandidateEq(changes[k][2], new_candidate)

\* for orig_candidate in candidates, in the iteration order given: the results are
\* Ok(changes) or the error.  The rules of a candidate are mutated one by one, each
\* on its own draws, and collected back into a set: their order in the Vec changes
\* nothing, so one enumeration of them stands for all
RECURSIVE MutateCandidatesFrom(_, _, _, _, _, _)
MutateCandidatesFrom(candidates, order, strategy, spec, k, changes) ==
    IF k > Len(order) THEN {Ok(changes)}
    ELSE UNION {
        IF ~gate THEN MutateCandidatesFrom(candidates, order, strategy, spec, k + 1, changes)
        ELSE UNION {
            IF mutated.tag # "Ok" THEN {mutated}
            ELSE LET new_candidate == FromRules(Collect(mutated.value.rules))
                 IN MutateCandidatesFrom(candidates, order, strategy, spec, k + 1,
                        IF mutated.value.ran
                           /\ CommitAllowed(new_candidate, order[k], candidates, changes)
                        THEN Append(changes, <<order[k], new_candidate>>)
                        ELSE changes)
            : mutated \in MutateRulesFrom(SetToSeq(order[k].rules), strategy, spec, 1, FALSE)}
        : gate \in GenRatio(UnwrapOrDefault(strategy.options.chance_per_candidate), 100)}

\* the changes applied without population.remove(&remove_me)
RECURSIVE ApplyChangesKeeping(_, _, _)
ApplyChangesKeeping(candidates, changes, k) ==
    IF k > Len(changes) THEN candidates
    ELSE ApplyChangesKeeping(Insert(candidates, changes[k][2]).candidates, changes, k + 1)

\* for (remove_me, add_me) in changes: remove, then insert
RECURSIVE ApplyChanges(_, _, _)
ApplyChanges(candidates, changes, k) ==
    IF k > Len(changes) THEN candidates
    ELSE ApplyChanges(Insert(Remove(candidates, changes[k][1]).candidates,
                             changes[k][2]).candidates,
                      changes, k + 1)

\* the rule sets that the mutation of one candidate can propose
Proposals(candidate, strategy, spec) ==
    {Collect(mutated.value.rules)
     : mutated \in {m \in MutateRulesFrom(SetToSeq(candidate.rules), strategy, spec, 1, FALSE)
                      : m.tag = "Ok" /\ m.value.ran}}

\* The iteration orders of the candidate set that mutate is run on.  The order of
\* the visits matters to mutate in one way only: of the candidates whose mutated rule
\* sets are equal, the one visited first is committed (mutation.rs 183-188).  So the
\* place of a candidate in the order matters only if it can propose a rule set that
\* another candidate can propose too, and the orders that visit some of those
\* candidates ahead of all others let every choice of first visits happen: they give
\* every result that some order gives
IterationOrders(S, strategy, spec) ==
    LET colliding == {c \in S : \E d \in S \ {c} :
                        Proposals(c, strategy, spec) \cap Proposals(d, strategy, spec) # {}}
    IN {SetToSeq(first) \o SetToSeq(S \ first) : first \in SUBSET colliding}

\* MutationStrategy::mutate, the candidates iterated in the order given: every
\* result it can give, Ok with the candidate set it leaves
Mutate(candidates, order, strategy, spec) ==
    LET chance == UnwrapOrDefault(strategy.options.chance)
    IN IF chance = 0 THEN {Ok(candidates)}
       ELSE UNION {
           IF ~gate THEN {Ok(candidates)}
           ELSE {IF changes.tag # "Ok" THEN changes
                 ELSE Ok(ApplyChanges(candidates, changes.value, 1))
                 : changes \in MutateCandidatesFrom(candidates, order, strategy, spec, 1, <<>>)}
           : gate \in GenRatio(chance, 100)}

----------------------------------------------------------------------------
(* main.rs: run_ga *)

\* the training set of the runs explored: two examples, two symbols wide
Training ==
    <<[input |-> <<"0", "0">>, output |-> "0"],
      [input |-> <<"0", "1">>, output |-> "1"]>>

\* training.width()
Width(data_set) == Len(data_set[1].input)

InitialGeneration ==
    [candidates |-> [min |-> 0, max |-> 3, rng_fail_retries |-> 2],
     rules |-> [min |-> 1, max |-> 3, rng_fail_retries |-> 2],
     constraints |-> [min |-> 1, max |-> 2, rng_fail_retries |-> 2]]

Allow == [setting |-> "allow"]

Disallow(retries) == [setting |-> "disallow", retries |-> retries]

Tournament(tournament_size, selection_size, duplicates) ==
    [type |-> "tournament", tournament_size |-> tournament_size,
     selection_size |-> selection_size, duplicates |-> duplicates]

Roulette(selection_size, duplicates) ==
    [type |-> "roulette", selection_size |-> selection_size, duplicates |-> duplicates]

\* CrossoverStrategy::new with MatingStrategy::SinglePointAtIndex
CrossoverStrategy(matchup_strategy, split_at, mirroring) ==
    [matchup_strategy |-> matchup_strategy,
     mating_strategy |-> [type |-> "single_point_at_index", split_at |-> split_at],
     options |-> [mirroring |-> mirroring]]

MutationStrategy(chance, chance_per_candidate, chance_per_rule, chance_per_constraint, variant) ==
    [options |-> [chance |-> chance, chance_per_candidate |-> chance_per_candidate,
                  chance_per_rule |-> chance_per_rule,
                  chance_per_constraint |-> chance_per_constraint],
     variant |-> variant]

\* the selection, crossover and mutation strategies of the configurations explored
Strategies ==
    {<<Tournament(2, 2, Allow),
       CrossoverStrategy([type |-> "next_fittest"], 1, "never"),
       MutationStrategy(Some(50), Some(100), Some(100), Some(100),
                        [type |-> "constraint_swap", delta |-> 1])>>,
     <<Tournament(1, 2, Disallow(1)),
       CrossoverStrategy([type |-> "least_fittest"], 1, "always_mirror"),
       MutationStrategy(Some(100), Some(100), Some(100), Some(100),
                        [type |-> "constraint_swap", delta |-> 1])>>,
     <<Roulette(1, Allow),
       CrossoverStrategy([type |-> "random", allow_asexual |-> TRUE,
                          allow_duplicates |-> FALSE], 1, "mirror_if_asexual"),
       MutationStrategy(Some(100), Some(100), Some(100), Some(100),
                        [type |-> "constraint_randomize", swap_if_fail |-> TRUE,
                         retries |-> 1])>>,
     <<Tournament(2, 1, Allow),
       CrossoverStrategy([type |-> "random", allow_asexual |-> FALSE,
                          allow_duplicates |-> TRUE], 0, "never"),
       MutationStrategy(Nothing, Nothing, Nothing, Nothing,
                        [type |-> "constraint_swap", delta |-> 1])>>}

\* the GaSpec built at main.rs 82-86, with the fields Rule::generate reads
GaSpec(max_evolutions, stop_at_optimum_fitness, strategies) ==
    [initial_generation |-> InitialGeneration,
     min_rule_constraints |-> InitialGeneration.constraints.min,
     max_rule_constraints |-> InitialGeneration.constraints.max,
     max_rule_generation_consecutive_fail |-> InitialGeneration.rules.rng_fail_retries,
     max_evolutions |-> max_evolutions,
     stop_at_optimum_fitness |-> stop_at_optimum_fitness,
     selection |-> strategies[1],
     crossover |-> strategies[2],
     mutation |-> strategies[3],
     alphabet |-> Alphabet,
     max_index |-> Width(Training)]

GaSpecs ==
    {GaSpec(max_evolutions, stop_at_optimum_fitness, strategies)
     : max_evolutions \in 0..MaxEvolutions, stop_at_optimum_fitness \in BOOLEAN,
       strategies \in Strategies}

Running == [tag |-> "Running", value |-> <<>>]

NoOp == [kind |-> "none"]

\* the state after let mut population = Population::generate(&ga_specs)
Init ==
    /\ ga_specs \in GaSpecs
    /\ population \in {[candidates |-> generated, generation |-> 1]
                       : generated \in PopulationGenerate(ga_specs)}
    /\ pc = "start"
    /\ evolution = 0
    /\ fitness_values = <<>>
    /\ max = Nothing
    /\ selection = <<>>
    /\ offsprings = <<>>
    /\ result = Running
    /\ op = NoOp
    /\ ruleA = <<>>
    /\ ruleB = <<>>

\* population.increment_generation() ahead of the loop
Start ==
    /\ pc = "start"
    /\ population' = [population EXCEPT !.generation = @ + 1]
    /\ pc' = "loop"
    /\ op' = NoOp
    /\ UNCHANGED <<evalVars, ga_specs, evolution, fitness_values, max, selection,
                   offsprings, result>>

\* for i in 0..ga_specs.max_evolutions, and Ok(()) after the loop
LoopHead ==
    /\ pc = "loop"
    /\ IF evolution < ga_specs.max_evolutions
       THEN pc' = "calculate_fitness" /\ result' = result
       ELSE pc' = "done" /\ result' = Ok(<<>>)
    /\ op' = NoOp
    /\ UNCHANGED <<evalVars, ga_specs, population, evolution, fitness_values, max,
                   selection, offsprings>>

\* let fitness = population.calculate_fitness(&training)?
CalculateFitnessStep ==
    /\ pc = "calculate_fitness"
    /\ \E returned \in PopulationCalculateFitness(population.candidates, Training) :
        /\ op' = [kind |-> "calculate_fitness", returned |-> returned]
        /\ IF returned.tag = "Ok"
           THEN fitness_values' = returned.value /\ pc' = "report" /\ result' = result
           ELSE fitness_values' = fitness_values /\ pc' = "done" /\ result' = returned
    /\ UNCHANGED <<evalVars, ga_specs, population, evolution, max, selection,
                   offsprings>>

\* the scan for the best fitness (main.rs 98-122)
RECURSIVE MaxFitness(_, _, _)
MaxFitness(list, k, best) ==
    IF k > Len(list) THEN best
    ELSE MaxFitness(list, k + 1,
                    IF best = Nothing THEN Some(list[k].fitness)
                    ELSE IF list[k].fitness > best[1] THEN Some(list[k].fitness) ELSE best)

\* the report of the generation; max.unwrap() panics on an empty population
Report ==
    /\ pc = "report"
    /\ LET best == MaxFitness(fitness_values, 1, Nothing)
       IN IF best = Nothing
          THEN max' = max /\ pc' = "done" /\ result' = Panic("unwrap")
          ELSE max' = best /\ pc' = "select" /\ result' = result
    /\ op' = NoOp
    /\ UNCHANGED <<evalVars, ga_specs, population, evolution, fitness_values,
                   selection, offsprings>>

\* let selection = ga_specs.selection.select(&fitness)?
SelectStep ==
    /\ pc = "select"
    /\ \E returned \in Select(fitness_values, ga_specs.selection) :
        /\ op' = [kind |-> "select", returned |-> returned]
        /\ IF returned.tag = "Ok"
           THEN selection' = returned.value /\ pc' = "crossover" /\ result' = result
           ELSE selection' = selection /\ pc' = "done" /\ result' = returned
    /\ fitness_values' = <<>>
    /\ UNCHANGED <<evalVars, ga_specs, population, evolution, max, offsprings>>

\* let offsprings = ga_specs.crossover.crossover(&selection)?
CrossoverStep ==
    /\ pc = "crossover"
    /\ \E returned \in Crossover(selection, ga_specs.crossover) :
        /\ op' = [kind |-> "crossover", returned |-> returned]
        /\ IF returned.tag = "Ok"
           THEN offsprings' = returned.value /\ pc' = "append" /\ result' = result
           ELSE offsprings' = offsprings /\ pc' = "done" /\ result' = returned
    /\ selection' = <<>>
    /\ UNCHANGED <<evalVars, ga_specs, population, evolution, fitness_values, max>>

\* population.append(offsprings)
AppendStep ==
    /\ pc = "append"
    /\ LET appended == PopulationAppend(population.candidates, population.generation,
                                        offsprings)
       IN /\ population' = [population EXCEPT !.candidates = appended.candidates]
          /\ op' = [kind |-> "append", before |-> population, list |-> offsprings,
                    returned |-> appended.added]
    /\ offsprings' = <<>>
    /\ pc' = "mutate"
    /\ UNCHANGED <<evalVars, ga_specs, evolution, fitness_values, max, selection,
                   result>>

\* ga_specs.mutation.mutate(...) with its error dropped instead of returned
MutateStepIgnoringError ==
    /\ pc = "mutate"
    /\ \E order \in IterationOrders(population.candidates, ga_specs.mutation, ga_specs) :
       \E returned \in Mutate(population.candidates, order, ga_specs.mutation, ga_specs) :
        /\ op' = [kind |-> "mutate", before |-> population, returned |-> returned]
        /\ population' = IF returned.tag = "Ok"
                         THEN [population EXCEPT !.candidates = returned.value]
                         ELSE population
    /\ pc' = "check"
    /\ UNCHANGED <<evalVars, ga_specs, evolution, fitness_values, max, selection,
                   offsprings, result>>

\* ga_specs.mutation.mutate(&mut population, &ga_specs)?
MutateStep ==
    /\ pc = "mutate"
    /\ \E order \in IterationOrders(population.candidates, ga_specs.mutation, ga_specs) :
       \E returned \in Mutate(population.candidates, order, ga_specs.mutation, ga_specs) :
        /\ op' = [kind |-> "mutate", before |-> population, returned |-> returned]
        /\ IF returned.tag = "Ok"
           THEN /\ population' = [population EXCEPT !.candidates = returned.value]
                /\ pc' = "check" /\ result' = result
           ELSE population' = population /\ pc' = "done" /\ result' = returned
    /\ UNCHANGED <<evalVars, ga_specs, evolution, fitness_values, max, selection,
                   offsprings>>

\* the break of main.rs 138 taken whatever stop_at_optimum_fitness says
CheckStopIgnoringFlag ==
    /\ pc = "check"
    /\ IF max[1] = Len(Training)
       THEN /\ pc' = "done"
            /\ result' = Ok(<<>>)
            /\ UNCHANGED <<population, evolution>>
       ELSE /\ pc' = "loop"
            /\ population' = [population EXCEPT !.generation = @ + 1]
            /\ evolution' = evolution + 1
            /\ result' = result
    /\ op' = NoOp
    /\ UNCHANGED <<evalVars, ga_specs, fitness_values, max, selection, offsprings>>

\* the break at the optimum, else population.increment_generation() and the next i
CheckStop ==
    /\ pc = "check"
    /\ IF max[1] = Len(Training) /\ ga_specs.stop_at_optimum_fitness
       THEN /\ pc' = "done"
            /\ result' = Ok(<<>>)
            /\ UNCHANGED <<population, evolution>>
       ELSE /\ pc' = "loop"
            /\ population' = [population EXCEPT !.generation = @ + 1]
            /\ evolution' = evolution + 1
            /\ result' = result
    /\ op' = NoOp
    /\ UNCHANGED <<evalVars, ga_specs, fitness_values, max, selection, offsprings>>

Next ==
    \/ Start
    \/ LoopHead
    \/ CalculateFitnessStep
    \/ Report
    \/ SelectStep
    \/ CrossoverStep
    \/ AppendStep
    \/ MutateStep
    \/ CheckStop

Spec == Init /\ [][Next]_vars

----------------------------------------------------------------------------
(* The Rule and Candidate operators applied to inputs drawn in the initial state *)

Positions == 0..(MaxIndex - 1)

Widths == 0..MaxIndex

EvalInit ==
    /\ ruleA \in RulesOver(Positions)
    /\ ruleB \in RulesOver(Positions)
    /\ op = NoOp
    /\ ga_specs = <<>>
    /\ population = <<>>
    /\ pc = "idle"
    /\ evolution = 0
    /\ fitness_values = <<>>
    /\ max = <<>>
    /\ selection = <<>>
    /\ offsprings = <<>>
    /\ result = <<>>

\* rule.evaluate(input) on one of the two rules
EvaluateStep ==
    /\ op.kind = "none"
    /\ \E rule \in {ruleA, ruleB} : \E order \in Perms(DOMAIN rule) :
       \E w \in Widths : \E input \in [1..w -> AlphabetSet] :
          op' = [kind |-> "evaluate", rule |-> rule, order |-> order, input |-> input,
                 result |-> Evaluate(rule, order, input)]
    /\ UNCHANGED <<ruleA, ruleB, driverVars>>

\* to_string and hash of both rules; ruleA is rendered from two iteration orders
ToStringStep ==
    /\ op.kind = "none"
    /\ \E oa \in Perms(DOMAIN ruleA), oa2 \in Perms(DOMAIN ruleA), ob \in Perms(DOMAIN ruleB) :
          op' = [kind |-> "to_string",
                 strA |-> ToString(ruleA, oa), strA2 |-> ToString(ruleA, oa2),
                 strB |-> ToString(ruleB, ob),
                 hashA |-> RuleHash(ruleA, oa), hashA2 |-> RuleHash(ruleA, oa2),
                 hashB |-> RuleHash(ruleB, ob)]
    /\ UNCHANGED <<ruleA, ruleB, driverVars>>

\* candidate.calculate_fitness(data_set) on a candidate made of the two rules: the
\* call starts with fitness 0 and the rules' iteration orders fixed for the call
FitnessBegin ==
    /\ op.kind = "none"
    /\ \E rules \in SUBSET {ruleA, ruleB} : \E ruleSeq \in Perms(rules) :
       \E orders \in OrdersOf(rules) : \E w \in Widths :
          op' = [kind |-> "calculate_fitness", rules |-> rules, ruleSeq |-> ruleSeq,
                 orders |-> orders, width |-> w, len |-> 0, agreed |-> 0,
                 result |-> Ok(0)]
    /\ UNCHANGED <<ruleA, ruleB, driverVars>>

\* some rule of the set, evaluated as true -> "1", false -> "0", gives the item's label
\* (the reference the result is compared with; no iteration order in it)
SomeRuleAgrees(rules, item) ==
    \E r \in rules :
        ((\A k \in DOMAIN r : k < Len(item.input) /\ item.input[k + 1] = r[k])
            <=> item.output = "1")

\* one more data item of the set goes through the loop of calculate_fitness; op.len
\* counts the items of the data set and op.agreed those some rule agrees with
FitnessItem ==
    /\ op.kind = "calculate_fitness"
    /\ op.result.tag = "Ok"
    /\ op.len < MaxExamples
    /\ \E item \in DataItems(op.width) :
          LET r == FitnessOfItem(op.ruleSeq, op.orders, item)
          IN op' = [op EXCEPT !.len = @ + 1,
                              !.agreed = @ + (IF SomeRuleAgrees(op.rules, item) THEN 1 ELSE 0),
                              !.result = IF r.tag = "Err" THEN r
                                         ELSE Ok(op.result.value + r.value)]
    /\ UNCHANGED <<ruleA, ruleB, driverVars>>

\* the hash of one candidate, its rule set iterated in two orders
HashStep ==
    /\ op.kind = "none"
    /\ \E rules \in SUBSET {ruleA, ruleB} :
       \E seq1 \in Perms(rules), seq2 \in Perms(rules) :
       \E orders1 \in OrdersOf(rules), orders2 \in OrdersOf(rules) :
          op' = [kind |-> "hash", rules |-> rules,
                 hash1 |-> CandidateHash(seq1, orders1),
                 hash2 |-> CandidateHash(seq2, orders2)]
    /\ UNCHANGED <<ruleA, ruleB, driverVars>>

EvalNext == EvaluateStep \/ ToStringStep \/ FitnessBegin \/ FitnessItem \/ HashStep

EvalSpec == EvalInit /\ [][EvalNext]_vars

----------------------------------------------------------------------------
(* Claims about Rule and Candidate (checked under EvalSpec) *)

\* every constrained position of every rule of the set lies inside a width-w input
Covers(rules, w) == \A r \in rules : \A k \in DOMAIN r : k < w

\* the input with the symbol at (0-based) position p changed to another symbol
FlipsAt(input, p) == {[input EXCEPT ![p + 1] = c] : c \in AlphabetSet \ {input[p + 1]}}

\* C6: for a candidate C and a data set E whose width covers all constrained positions
\* of C, calculate_fitness(C, E) succeeds, is <= |E|, counts exactly the examples for
\* which some rule of C evaluates to the example's label (so it is |E| iff every
\* example is such an example, each example counting at most once), and is the same
\* for every iteration order of the rules and of their constraints.
C6_FitnessCountsAgreedExamples ==
    (op.kind = "calculate_fitness" /\ Covers(op.rules, op.width)) =>
        /\ op.result.tag = "Ok"
        /\ op.result.value <= op.len
        /\ op.result.value = op.agreed
        /\ (op.result.value = op.len <=> op.agreed = op.len)

\* a two-rule candidate has been evaluated on two examples and one of them counted
C6_Witness ==
    /\ op.kind = "calculate_fitness"
    /\ Covers(op.rules, op.width)
    /\ Cardinality(op.rules) = 2
    /\ op.len = 2
    /\ op.result = Ok(1)

\* C7: for a rule R and an input E wider than R's highest constrained position,
\* R.evaluate(E) succeeds and is true iff E carries the required symbol at every
\* constrained position (true for no constraints); changing the symbol of a matching
\* input at any one constrained position makes the result false.
C7_EvaluateIsConjunction ==
    (op.kind = "evaluate" /\ Covers({op.rule}, Len(op.input))) =>
        /\ op.result.tag = "Ok"
        /\ op.result.value <=> \A k \in DOMAIN op.rule : op.input[k + 1] = op.rule[k]
        /\ op.result.value =>
              \A p \in DOMAIN op.rule : \A flipped \in FlipsAt(op.input, p) :
                  Evaluate(op.rule, op.order, flipped) = Ok(FALSE)

\* a rule with two constraints has been evaluated on an input it matches
C7_Witness ==
    /\ op.kind = "evaluate"
    /\ Cardinality(DOMAIN op.rule) = 2
    /\ Covers({op.rule}, Len(op.input))
    /\ op.result = Ok(TRUE)

\* C8: a rule with a constrained position >= the input's width always fails with
\* IndexOutOfRange, and so does calculate_fitness of a candidate holding such a rule
\* on a non-empty data set of that width.
C8_OutOfRangeAlwaysFails ==
    /\ (op.kind = "evaluate" /\ ~Covers({op.rule}, Len(op.input))) =>
            op.result = Err("IndexOutOfRange")
    /\ (op.kind = "calculate_fitness" /\ op.len >= 1 /\ ~Covers(op.rules, op.width)) =>
            op.result = Err("IndexOutOfRange")

\* the canonical string of a rule: one symbol per position up to the highest
\* constrained one, "_" where the position is unconstrained
IsCanonicalString(str, rule) ==
    /\ Len(str) = (IF DOMAIN rule = {} THEN 0 ELSE SetMax(DOMAIN rule) + 1)
    /\ \A i \in 1..Len(str) :
          str[i] = IF (i - 1) \in DOMAIN rule THEN rule[i - 1] ELSE "_"

\* C9: two rules are equal iff their strings are equal; the string is the canonical
\* one (ascending positions, "_" for gaps, length highest position + 1, empty for no
\* constraint); string and hash do not depend on the iteration (insertion) order;
\* equal rules hash identically, and a candidate's hash does not depend on the
\* iteration order of its rule set.
C9_EqualityAndHashAreCanonical ==
    /\ op.kind = "to_string" =>
          /\ RuleEq(ruleA, ruleB) <=> op.strA = op.strB
          /\ IsCanonicalString(op.strA, ruleA)
          /\ IsCanonicalString(op.strB, ruleB)
          /\ op.strA = op.strA2
          /\ op.hashA = op.hashA2
          /\ RuleEq(ruleA, ruleB) => op.hashA = op.hashB
    /\ op.kind = "hash" => op.hash1 = op.hash2

\* two equal rules with two constraints each have been rendered and hashed
C9_Witness ==
    /\ op.kind = "to_string"
    /\ Cardinality(DOMAIN ruleA) = 2
    /\ RuleEq(ruleA, ruleB)
    /\ op.hashA = op.hashB

----------------------------------------------------------------------------
(* Claims about the population and the driver, checked under Spec *)

\* C1: the members of a population are unique by rule set: after generate, append
\* and the removals and insertions of the mutation pass, no two members have equal
\* rule sets, whatever their mutation counts and birth generations
C1_MembersUniqueByRules ==
    \A a \in population.candidates : \A b \in population.candidates :
        CandidateEq(a, b) => a = b

\* an append has just met an offspring whose rule set equals that of a member born in
\* another generation
C1_Witness ==
    /\ op.kind = "append"
    /\ \E k \in DOMAIN op.list : \E member \in op.before.candidates :
        /\ CandidateEq(member, op.list[k])
        /\ member.birth_generation_id # Some(op.before.generation)

\* the statements of one generation still to execute when control is at pc
Rank(at) ==
    IF at = "done" THEN 0
    ELSE IF at = "check" THEN 1
    ELSE IF at = "mutate" THEN 2
    ELSE IF at = "append" THEN 3
    ELSE IF at = "crossover" THEN 4
    ELSE IF at = "select" THEN 5
    ELSE IF at = "report" THEN 6
    ELSE IF at = "calculate_fitness" THEN 7
    ELSE IF at = "loop" THEN 8
    ELSE 9

\* a bound on the steps the run can still take
Remaining(at, i) == IF at = "done" THEN 0 ELSE (ga_specs.max_evolutions - i) * 8 + Rank(at)

\* C2: the driver completes at most max_evolutions generations and then terminates:
\* until it has returned a step is always possible, and every step lowers a bound on
\* the steps left, which is never negative.  A run that returns Ok before
\* max_evolutions generations has stopped at the optimum (the flag set and the best
\* fitness equal to the number of training examples) without advancing the
\* generation counter; a generation that ends at the optimum with the flag set is
\* never followed by another; without the flag a run returns Ok only after
\* max_evolutions generations
C2_RunIsBoundedAndStopsAtOptimum ==
    /\ [](evolution <= ga_specs.max_evolutions)
    /\ [](pc # "done" => ENABLED Next)
    /\ [][Remaining(pc', evolution') < Remaining(pc, evolution)]_vars
    /\ []((pc = "done" /\ result.tag = "Ok") =>
            IF evolution < ga_specs.max_evolutions
            THEN /\ ga_specs.stop_at_optimum_fitness
                 /\ max = Some(Len(Training))
                 /\ population.generation = evolution + 2
            ELSE evolution = ga_specs.max_evolutions)
    /\ []((pc = "loop" /\ evolution > 0) =>
            ~(ga_specs.stop_at_optimum_fitness /\ max = Some(Len(Training))))

\* a run has stopped at the optimum before its last generation, after a full one
C2_Witness ==
    /\ pc = "done"
    /\ result.tag = "Ok"
    /\ evolution >= 1
    /\ evolution < ga_specs.max_evolutions

\* C3: a run with max_evolutions = 1 and stop_at_optimum_fitness = false that returns
\* Ok ends with the generation counter equal to 2
C3_OneGenerationEndsAtTwo ==
    (/\ pc = "done"
     /\ result.tag = "Ok"
     /\ ga_specs.max_evolutions = 1
     /\ ~ga_specs.stop_at_optimum_fitness) => population.generation = 2

\* C4: no step of the driver makes the population smaller, and the mutation pass
\* leaves its size as it was: every committed change removes one member and inserts one
C4_SizeNeverDecreases ==
    /\ [][Cardinality(population'.candidates) >= Cardinality(population.candidates)]_vars
    /\ [](op.kind = "mutate" =>
            Cardinality(population.candidates) = Cardinality(op.before.candidates))

\* a mutation pass has replaced members of a population that the append of the same
\* generation had enlarged
C4_Witness ==
    /\ op.kind = "mutate"
    /\ op.returned.tag = "Ok"
    /\ population.candidates # op.before.candidates
    /\ \E c \in op.before.candidates :
          c.birth_generation_id = Some(population.generation)

OperatorFailed ==
    /\ op.kind \in {"calculate_fitness", "select", "crossover", "mutate"}
    /\ op.returned.tag = "Err"

\* C5: when fitness evaluation, selection, crossover or mutation returns an error, the
\* run is over: the error is the result of the run, no step follows, and the
\* generation counter stands where the generation began
C5_OperatorErrorEndsRun ==
    /\ OperatorFailed =>
          /\ pc = "done"
          /\ result = op.returned
          /\ ~ENABLED Next
          /\ population.generation = evolution + 2
    /\ result.tag = "Err" => OperatorFailed

\* fitness evaluation has failed in a generation after the first
C5_Witness ==
    /\ op.kind = "calculate_fitness"
    /\ op.returned.tag = "Err"
    /\ evolution >= 1
    /\ result = Err("IndexOutOfRange")

\* C10: append returns the size after minus the size before; the members it adds are
\* offspring stamped with the current generation; an offspring equal by rule set to a
\* member is skipped and the member keeps its fields; every offspring is represented
\* afterwards; the generation counter is untouched
C10_AppendCountsAndStamps ==
    op.kind = "append" =>
        LET before == op.before.candidates
            after == population.candidates
        IN /\ op.returned = Cardinality(after) - Cardinality(before)
           /\ before \subseteq after
           /\ \A c \in after \ before :
                /\ c.birth_generation_id = Some(op.before.generation)
                /\ ~Contains(before, c)
                /\ \E k \in DOMAIN op.list : CandidateEq(op.list[k], c)
           /\ \A k \in DOMAIN op.list : Contains(after, op.list[k])
           /\ population.generation = op.before.generation

\* an append has added one offspring and skipped another that equals a member born
\* in an earlier generation
C10_Witness ==
    /\ op.kind = "append"
    /\ op.returned >= 1
    /\ op.returned < Len(op.list)
    /\ \E k \in DOMAIN op.list : \E member \in op.before.candidates :
        /\ CandidateEq(member, op.list[k])
        /\ member.birth_generation_id = Some(0)
        /\ member \in population.candidates

----------------------------------------------------------------------------
(* The operators of the population, selection, crossover and mutation applied one
   at a time to inputs drawn in the initial state *)

\* the most candidates of a population handed to one operator
MaxCandidates == 3

\* the rules the candidates are made of
PoolRules ==
    {[k \in {} |-> "0"], [k \in {0} |-> "0"], [k \in {0} |-> "1"], [k \in {1} |-> "1"],
     [k \in {0, 1} |-> "1"]}

PoolCandidates ==
    {FromRules({r}) : r \in PoolRules}
        \cup {FromRules({}), FromRules({[k \in {0} |-> "1"], [k \in {1} |-> "1"]})}

\* the data sets: none, the training set, and one of width 1 that some rules overrun
DataSets == {<<>>, Training, <<[input |-> <<"1">>, output |-> "1"]>>,
             <<[input |-> <<"0">>, output |-> "0"], [input |-> <<"1">>, output |-> "1"]>>}

\* sort_by_key is stable: an entry goes behind the entries whose key is not greater
RECURSIVE InsertByFitness(_, _)
InsertByFitness(sorted, e) ==
    IF sorted = <<>> THEN <<e>>
    ELSE IF e.fitness < sorted[Len(sorted)].fitness
         THEN InsertByFitness(SubSeq(sorted, 1, Len(sorted) - 1), e)
                  \o <<sorted[Len(sorted)]>>
         ELSE sorted \o <<e>>

RECURSIVE SortByKeyFitness(_, _, _)
SortByKeyFitness(list, k, sorted) ==
    IF k > Len(list) THEN sorted
    ELSE SortByKeyFitness(list, k + 1, InsertByFitness(sorted, list[k]))

\* the loop of Population::calculate_fitness with every failed candidate left out
RECURSIVE CalculateFitnessLoopSkipping(_, _, _, _)
CalculateFitnessLoopSkipping(order, fitness_of, k, list) ==
    IF k > Len(order) THEN Ok(SortByKeyFitness(list, 1, <<>>))
    ELSE IF fitness_of[order[k]].tag # "Ok"
         THEN CalculateFitnessLoopSkipping(order, fitness_of, k + 1, list)
         ELSE CalculateFitnessLoopSkipping(order, fitness_of, k + 1,
                  list \o <<[candidate |-> order[k],
                             fitness |-> fitness_of[order[k]].value]>>)

\* Population::calculate_fitness as the code runs it: the candidates are visited in
\* the set's iteration order, fitness_of[c] is what candidate.calculate_fitness gives
\* for c in this call, the first error returns (?), and the list is sorted at the end
RECURSIVE CalculateFitnessLoop(_, _, _, _)
CalculateFitnessLoop(order, fitness_of, k, list) ==
    IF k > Len(order) THEN Ok(SortByKeyFitness(list, 1, <<>>))
    ELSE IF fitness_of[order[k]].tag # "Ok" THEN fitness_of[order[k]]
         ELSE CalculateFitnessLoop(order, fitness_of, k + 1,
                  list \o <<[candidate |-> order[k],
                             fitness |-> fitness_of[order[k]].value]>>)

\* what candidate.calculate_fitness can give for each member in one call
FitnessResults(candidates, data_set) ==
    LET outcomes == UNION {CandidateFitnessOutcomes(c, data_set) : c \in candidates}
    IN {f \in [candidates -> outcomes] :
            \A c \in candidates : f[c] \in CandidateFitnessOutcomes(c, data_set)}

OpInit ==
    /\ population \in {[candidates |-> members, generation |-> 2]
                       : members \in {P \in SUBSET PoolCandidates :
                                          Cardinality(P) <= MaxCandidates}}
    /\ op = NoOp
    /\ pc = "idle"
    /\ ruleA = <<>>
    /\ ruleB = <<>>
    /\ ga_specs = <<>>
    /\ evolution = 0
    /\ fitness_values = <<>>
    /\ max = <<>>
    /\ selection = <<>>
    /\ offsprings = <<>>
    /\ result = <<>>

\* population.calculate_fitness(&data_set)
CalculateFitnessCall ==
    /\ op.kind = "none"
    /\ \E data_set \in DataSets : \E order \in Perms(population.candidates) :
       \E fitness_of \in FitnessResults(population.candidates, data_set) :
          op' = [kind |-> "population_fitness", data_set |-> data_set, order |-> order,
                 fitness_of |-> fitness_of,
                 returned |-> CalculateFitnessLoop(order, fitness_of, 1, <<>>)]
    /\ UNCHANGED <<evalVars, driverVars>>

\* the selection strategies tried: tournaments of 0 to 2 entrants and the roulette,
\* for selections of up to one more than the candidates there can be
Duplicates == {Allow, Disallow(0), Disallow(1), Disallow(2)}

SelectionSizes == {0, 1, 2, MaxCandidates + 1}

SelectionStrategies ==
    {Tournament(tournament_size, selection_size, duplicates)
     : tournament_size \in 0..2, selection_size \in SelectionSizes,
       duplicates \in Duplicates}
    \cup {Roulette(selection_size, duplicates)
          : selection_size \in SelectionSizes, duplicates \in Duplicates}

\* strategy.select(&fitness) on the list calculate_fitness returned for the training
\* set
SelectCall ==
    /\ op.kind = "population_fitness"
    /\ op.returned.tag = "Ok"
    /\ op.data_set = Training
    /\ op.order = SetToSeq(population.candidates)
    /\ \E strategy \in SelectionStrategies :
       \E returned \in Select(op.returned.value, strategy) :
          op' = [kind |-> "select", candidates |-> op.returned.value,
                 strategy |-> strategy, returned |-> returned]
    /\ UNCHANGED <<evalVars, driverVars>>

\* one tournament in which an entrant of equal fitness takes the place of the best
RECURSIVE TournamentBestLastWins(_, _, _, _, _, _)
TournamentBestLastWins(candidates, results, strategy, i, best, drawn) ==
    IF i >= strategy.tournament_size
    THEN {[best |-> IF best = <<>> THEN Err("EmptyCandidates")
                    ELSE Ok(candidates[best[1] + 1]),
           drawn |-> drawn]}
    ELSE UNION {
        IF index.tag # "Ok" THEN {[best |-> index, drawn |-> drawn]}
        ELSE TournamentBestLastWins(candidates, results, strategy, i + 1,
                IF best = <<>> THEN <<index.value>>
                ELSE IF candidates[index.value + 1].fitness >= candidates[best[1] + 1].fitness
                     THEN <<index.value>> ELSE best,
                Append(drawn, index.value))
        : index \in TournamentIndex(candidates, results, strategy.duplicates, 0)}

\* one tournament as TournamentBest runs it (selection.rs 93-128), returning with
\* the best the indices the entrants were drawn at
RECURSIVE TournamentBestTrace(_, _, _, _, _, _)
TournamentBestTrace(candidates, results, strategy, i, best, drawn) ==
    IF i >= strategy.tournament_size
    THEN {[best |-> IF best = <<>> THEN Err("EmptyCandidates")
                    ELSE Ok(candidates[best[1] + 1]),
           drawn |-> drawn]}
    ELSE UNION {
        IF index.tag # "Ok" THEN {[best |-> index, drawn |-> drawn]}
        ELSE TournamentBestTrace(candidates, results, strategy, i + 1,
                IF best = <<>> THEN <<index.value>>
                ELSE IF candidates[index.value + 1].fitness > candidates[best[1] + 1].fitness
                     THEN <<index.value>> ELSE best,
                Append(drawn, index.value))
        : index \in TournamentIndex(candidates, results, strategy.duplicates, 0)}

\* the while loop as TournamentLoop runs it (selection.rs 92-130), returning with
\* the result the draws of every round played
RECURSIVE TournamentLoopTrace(_, _, _, _)
TournamentLoopTrace(candidates, results, strategy, rounds) ==
    IF Len(results) >= strategy.selection_size
    THEN {[returned |-> Ok(results), rounds |-> rounds]}
    ELSE UNION {
        IF round.best.tag # "Ok"
        THEN {[returned |-> round.best, rounds |-> Append(rounds, round.drawn)]}
        ELSE TournamentLoopTrace(candidates, Append(results, round.best.value), strategy,
                                 Append(rounds, round.drawn))
        : round \in TournamentBestTrace(candidates, results, strategy, 0, <<>>, <<>>)}

\* TournamentSelection::select on the list calculate_fitness returned for the
\* training set, for tournaments of 0 to 2 entrants and selections of up to 2
TournamentSelectCall ==
    /\ op.kind = "population_fitness"
    /\ op.returned.tag = "Ok"
    /\ op.data_set = Training
    /\ op.order = SetToSeq(population.candidates)
    /\ \E strategy \in {t \in SelectionStrategies :
                            t.type = "tournament" /\ t.selection_size <= 2} :
       \E trace \in TournamentLoopTrace(op.returned.value, <<>>, strategy, <<>>) :
          op' = [kind |-> "tournament_select", candidates |-> op.returned.value,
                 strategy |-> strategy, rounds |-> trace.rounds,
                 returned |-> trace.returned]
    /\ UNCHANGED <<evalVars, driverVars>>

\* the matchup strategies
MatchupStrategies ==
    {[type |-> "least_fittest"], [type |-> "next_fittest"]}
    \cup {[type |-> "random", allow_asexual |-> allow_asexual,
           allow_duplicates |-> allow_duplicates]
          : allow_asexual \in BOOLEAN, allow_duplicates \in BOOLEAN}

\* strategy.matchup(&candidates) on the list calculate_fitness returned for the
\* training set: a list of candidates that differ from one another
MatchupCall ==
    /\ op.kind = "population_fitness"
    /\ op.returned.tag = "Ok"
    /\ op.data_set = Training
    /\ op.order = SetToSeq(population.candidates)
    /\ \E strategy \in MatchupStrategies :
       \E returned \in Matchup(op.returned.value, strategy) :
          op' = [kind |-> "matchup", candidates |-> op.returned.value,
                 strategy |-> strategy, returned |-> returned]
    /\ UNCHANGED <<evalVars, driverVars>>

OpNext ==
    \/ CalculateFitnessCall
    \/ SelectCall
    \/ TournamentSelectCall
    \/ MatchupCall

OpSpec == OpInit /\ [][OpNext]_vars

----------------------------------------------------------------------------
(* Claims about the operators, checked under OpSpec *)

\* C11: Population::calculate_fitness returns one entry per member, each member paired
\* with the fitness computed for it, in ascending order of fitness; when the fitness
\* of a member is an error the call returns an error of a member and no list
C11_FitnessListIsSortedPermutation ==
    op.kind = "population_fitness" =>
        LET members == population.candidates
            list == op.returned.value
        IN /\ (\A c \in members : op.fitness_of[c].tag = "Ok") =>
                /\ op.returned.tag = "Ok"
                /\ Len(list) = Cardinality(members)
                /\ {list[k].candidate : k \in DOMAIN list} = members
                /\ \A k \in DOMAIN list :
                      /\ Ok(list[k].fitness) = op.fitness_of[list[k].candidate]
                      /\ list[k].fitness <= Len(op.data_set)
                      /\ (op.data_set # <<>>
                            /\ Covers(list[k].candidate.rules, Width(op.data_set))) =>
                            list[k].fitness =
                               Cardinality({i \in DOMAIN op.data_set :
                                   SomeRuleAgrees(list[k].candidate.rules, op.data_set[i])})
                /\ \A j \in DOMAIN list : \A k \in DOMAIN list :
                      j < k => list[j].fitness <= list[k].fitness
           /\ (\E c \in members : op.fitness_of[c].tag # "Ok") =>
                /\ op.returned.tag = "Err"
                /\ \E c \in members : op.returned = op.fitness_of[c]

\* a population of three with a tie and a better member has been evaluated
C11_Witness ==
    /\ op.kind = "population_fitness"
    /\ op.returned.tag = "Ok"
    /\ Len(op.returned.value) = 3
    /\ op.returned.value[1].fitness = op.returned.value[2].fitness
    /\ op.returned.value[2].fitness < op.returned.value[3].fitness
    /\ op.order[1] = op.returned.value[3].candidate

----------------------------------------------------------------------------
(* crossover.rs: the mating strategies, one pair at a time *)

\* x < y on usize values held as integers of least magnitude modulo 2^64
UsizeLess(x, y) ==
    IF x >= 0 /\ y < 0 THEN TRUE
    ELSE IF x < 0 /\ y >= 0 THEN FALSE
    ELSE x < y

\* x - y on usize: with overflow checks (a debug build) an underflow panics, without
\* them (a release build) it wraps
UsizeSub(x, y, overflow_checks) ==
    IF UsizeLess(x, y) /\ overflow_checks THEN Panic("overflow") ELSE Ok(x - y)

\* ((split_at as f64 / 100.0) * len as f64) as usize; the quotient is exact in f64
\* for the percentages used here (multiples of 50)
PercentOf(split_at, len) == (split_at * len) \div 100

\* the two children collected from the parts (crossover.rs 167-185, 211-229)
SinglePointChildren(ra, rb, split_at_a, split_at_b) ==
    <<FromRules(Collect(Take(ra, split_at_a) \o Skip(rb, split_at_b))),
      FromRules(Collect(Take(rb, split_at_b) \o Skip(ra, split_at_a)))>>

\* one pair under SinglePointAtPercentage (crossover.rs 190-230)
SinglePointAtPercentageChildren(a, b, ra, rb, split_at, mirroring, overflow_checks) ==
    LET split_at_a == PercentOf(split_at, Len(ra))
        split_at_b_no_mirror == PercentOf(split_at, Len(rb))
        mirror == \/ mirroring = "always_mirror"
                  \/ mirroring = "mirror_if_asexual" /\ CandidateFitnessEq(a, b)
        split_at_b == IF mirror
                      THEN UsizeSub(Len(rb), split_at_b_no_mirror, overflow_checks)
                      ELSE Ok(split_at_b_no_mirror)
    IN IF split_at_b.tag # "Ok" THEN split_at_b
       ELSE Ok(SinglePointChildren(ra, rb, split_at_a, split_at_b.value))

\* max(len, at) - min(len, at)
Mirrored(len, at) == Max(len, at) - Min(len, at)

\* one segment of a multi-point strategy added to both children (crossover.rs
\* 284-314, 379-409): the two lengths are subtracted first
ExtendChildren(ra, rb, a_start, a_end, b_start, b_end, children, overflow_checks) ==
    LET len_a == UsizeSub(a_end, a_start, overflow_checks)
        len_b == UsizeSub(b_end, b_start, overflow_checks)
    IN IF len_a.tag # "Ok" THEN len_a
       ELSE IF len_b.tag # "Ok" THEN len_b
       ELSE LET part_a == Take(Skip(ra, a_start), len_a.value)
                part_b == Take(Skip(rb, b_start), len_b.value)
            IN Ok(<<children[1] \cup Collect(part_a \o part_b),
                    children[2] \cup Collect(part_b \o part_a)>>)

\* one pair under MultiPointAtIndices (crossover.rs 234-317), from segment k on
RECURSIVE MultiPointAtIndicesFrom(_, _, _, _, _, _, _, _, _)
MultiPointAtIndicesFrom(a, b, ra, rb, split_at, mirroring, overflow_checks, k, children) ==
    IF k > Len(split_at)
    THEN Ok(<<FromRules(children[1]), FromRules(children[2])>>)
    ELSE LET split_at_a_start == Min(split_at[k][1], split_at[k][2])
             split_at_a_end == Max(split_at_a_start, split_at[k][2])
             mirror == \/ mirroring = "always_mirror"
                       \/ mirroring = "mirror_if_asexual" /\ CandidateFitnessEq(a, b)
             split_at_b_start == IF mirror THEN Mirrored(Len(rb), split_at_a_start)
                                 ELSE split_at_a_start
             split_at_b_end == IF mirror THEN Mirrored(Len(rb), split_at_a_end)
                               ELSE split_at_a_end
             extended == ExtendChildren(ra, rb, split_at_a_start, split_at_a_end,
                                        split_at_b_start, split_at_b_end, children,
                                        overflow_checks)
         IN IF extended.tag # "Ok" THEN extended
            ELSE MultiPointAtIndicesFrom(a, b, ra, rb, split_at, mirroring,
                                         overflow_checks, k + 1, extended.value)

\* one pair under MultiPointAtPercentages (crossover.rs 322-413), from segment k on
RECURSIVE MultiPointAtPercentagesFrom(_, _, _, _, _, _, _, _, _)
MultiPointAtPercentagesFrom(a, b, ra, rb, split_at, mirroring, overflow_checks, k, children) ==
    IF k > Len(split_at)
    THEN Ok(<<FromRules(children[1]), FromRules(children[2])>>)
    ELSE LET a_start == PercentOf(split_at[k][1], Len(ra))
             a_end == PercentOf(split_at[k][2], Len(ra))
             split_at_a_start == Min(a_start, a_end)
             split_at_a_end == Max(split_at_a_start, a_end)
             b_start == PercentOf(split_at[k][1], Len(rb))
             b_end == PercentOf(split_at[k][2], Len(rb))
             split_at_b_start_no_mirror == Min(b_start, b_end)
             split_at_b_end_no_mirror == Max(split_at_b_start_no_mirror, b_end)
             mirror == \/ mirroring = "always_mirror"
                       \/ mirroring = "mirror_if_asexual" /\ CandidateFitnessEq(a, b)
             split_at_b_start == IF mirror
                                 THEN UsizeSub(Len(rb), split_at_b_start_no_mirror,
                                               overflow_checks)
                                 ELSE Ok(split_at_b_start_no_mirror)
             split_at_b_end == IF mirror
                               THEN UsizeSub(Len(rb), split_at_b_end_no_mirror,
                                             overflow_checks)
                               ELSE Ok(split_at_b_end_no_mirror)
         IN IF split_at_b_start.tag # "Ok" THEN split_at_b_start
            ELSE IF split_at_b_end.tag # "Ok" THEN split_at_b_end
            ELSE LET extended == ExtendChildren(ra, rb, split_at_a_start, split_at_a_end,
                                                split_at_b_start.value,
                                                split_at_b_end.value, children,
                                                overflow_checks)
                 IN IF extended.tag # "Ok" THEN extended
                    ELSE MultiPointAtPercentagesFrom(a, b, ra, rb, split_at, mirroring,
                                                     overflow_checks, k + 1,
                                                     extended.value)

----------------------------------------------------------------------------
(* The mating strategies applied to one matchup pair drawn in the initial state *)

\* the rule sets of the parents: none, one, two, four rules, and two that overlap
ParentRuleSets ==
    {{},
     {[k \in {0} |-> "0"]},
     {[k \in {0} |-> "0"], [k \in {0} |-> "1"]},
     {[k \in {0} |-> "1"], [k \in {0, 1} |-> "1"]},
     {[k \in {} |-> "0"], [k \in {0, 1} |-> "1"]},
     {[k \in {0} |-> "0"], [k \in {0} |-> "1"], [k \in {1} |-> "0"], [k \in {1} |-> "1"]}}

Parents == {[candidate |-> FromRules(rules), fitness |-> 0] : rules \in ParentRuleSets}

Mirrorings == {"never", "always_mirror", "mirror_if_asexual"}

\* split_at of the single-point strategies: indices up to past the longest parent,
\* percentages up to past 100
SplitIndices == 0..5

SplitPercentages == {0, 50, 100, 150}

\* split_at of the multi-point strategies: up to two segments
SegmentLists(segments) ==
    {<<>>} \cup {<<s>> : s \in segments} \cup {<<s, t>> : s \in segments, t \in segments}

IndexSegments == {<<0, 1>>, <<1, 3>>, <<3, 1>>, <<2, 5>>}

PercentageSegments == {<<0, 50>>, <<50, 100>>, <<100, 50>>, <<50, 150>>}

\* one (a, b) of the matchup, in selection
CrossInit ==
    /\ selection \in {<<a, b>> : a \in Parents, b \in Parents}
    /\ op = NoOp
    /\ pc = "idle"
    /\ ruleA = <<>>
    /\ ruleB = <<>>
    /\ ga_specs = <<>>
    /\ population = <<>>
    /\ evolution = 0
    /\ fitness_values = <<>>
    /\ max = <<>>
    /\ offsprings = <<>>
    /\ result = <<>>

\* the pair mated under SinglePointAtIndex
MateSinglePointAtIndex ==
    /\ op.kind = "none"
    /\ \E iteration \in RuleSetOrders(selection) :
       \E split_at \in SplitIndices : \E mirroring \in Mirrorings :
          LET a == selection[1]
              b == selection[2]
              ra == iteration[a.candidate.rules]
              rb == iteration[b.candidate.rules]
          IN op' = [kind |-> "single_point_at_index", ra |-> ra, rb |-> rb,
                    split_at |-> split_at, mirroring |-> mirroring,
                    returned |-> Ok(SinglePointAtIndexChildren(a, b, ra, rb, split_at,
                                                               mirroring))]
    /\ UNCHANGED <<evalVars, driverVars>>

\* the pair mated under SinglePointAtPercentage
MateSinglePointAtPercentage ==
    /\ op.kind = "none"
    /\ \E iteration \in RuleSetOrders(selection) :
       \E split_at \in SplitPercentages : \E mirroring \in Mirrorings :
       \E overflow_checks \in BOOLEAN :
          LET a == selection[1]
              b == selection[2]
              ra == iteration[a.candidate.rules]
              rb == iteration[b.candidate.rules]
          IN op' = [kind |-> "single_point_at_percentage", ra |-> ra, rb |-> rb,
                    split_at |-> split_at, mirroring |-> mirroring,
                    overflow_checks |-> overflow_checks,
                    returned |-> SinglePointAtPercentageChildren(a, b, ra, rb, split_at,
                                     mirroring, overflow_checks)]
    /\ UNCHANGED <<evalVars, driverVars>>

\* the pair mated under MultiPointAtIndices
MateMultiPointAtIndices ==
    /\ op.kind = "none"
    /\ \E iteration \in RuleSetOrders(selection) :
       \E split_at \in SegmentLists(IndexSegments) : \E mirroring \in Mirrorings :
       \E overflow_checks \in BOOLEAN :
          LET a == selection[1]
              b == selection[2]
              ra == iteration[a.candidate.rules]
              rb == iteration[b.candidate.rules]
          IN op' = [kind |-> "multi_point_at_indices", ra |-> ra, rb |-> rb,
                    split_at |-> split_at, mirroring |-> mirroring,
                    overflow_checks |-> overflow_checks,
                    returned |-> MultiPointAtIndicesFrom(a, b, ra, rb, split_at,
                                     mirroring, overflow_checks, 1, <<{}, {}>>)]
    /\ UNCHANGED <<evalVars, driverVars>>

\* the pair mated under MultiPointAtPercentages
MateMultiPointAtPercentages ==
    /\ op.kind = "none"
    /\ \E iteration \in RuleSetOrders(selection) :
       \E split_at \in SegmentLists(PercentageSegments) : \E mirroring \in Mirrorings :
       \E overflow_checks \in BOOLEAN :
          LET a == selection[1]
              b == selection[2]
              ra == iteration[a.candidate.rules]
              rb == iteration[b.candidate.rules]
          IN op' = [kind |-> "multi_point_at_percentages", ra |-> ra, rb |-> rb,
                    split_at |-> split_at, mirroring |-> mirroring,
                    overflow_checks |-> overflow_checks,
                    returned |-> MultiPointAtPercentagesFrom(a, b, ra, rb, split_at,
                                     mirroring, overflow_checks, 1, <<{}, {}>>)]
    /\ UNCHANGED <<evalVars, driverVars>>

CrossNext ==
    \/ MateSinglePointAtIndex
    \/ MateSinglePointAtPercentage
    \/ MateMultiPointAtIndices
    \/ MateMultiPointAtPercentages

CrossSpec == CrossInit /\ [][CrossNext]_vars

----------------------------------------------------------------------------
(* Claims about the mating strategies, checked under CrossSpec *)

\* the elements of a sequence at the positions p (counted from 0) with lo <= p < hi
Slice(seq, lo, hi) == {seq[p + 1] : p \in {q \in 0..(Len(seq) - 1) : lo <= q /\ q < hi}}

\* C12: SinglePointAtIndex{split_at = s} on (A, B), the parents' rules in a fixed
\* iteration order: sA = s; sB = s under Never, | |rules_B| - s | under AlwaysMirror,
\* and under MirrorIfAsexual the mirrored value iff A equals B; child1 is the set of
\* A[0..sA) and B[sB..], child2 the set of B[0..sB) and A[sA..].  With |A| = 4,
\* |B| = 2, s = 2 and Never: child1 = {A0, A1}, child2 = {B0, B1, A2, A3}
C12_SinglePointAtIndexChildren ==
    op.kind = "single_point_at_index" =>
        LET A == op.ra
            B == op.rb
            s == op.split_at
            distance == IF Len(B) >= s THEN Len(B) - s ELSE s - Len(B)
            sA == s
            sB == IF op.mirroring = "always_mirror" THEN distance
                  ELSE IF op.mirroring = "mirror_if_asexual"
                            /\ selection[1].candidate.rules = selection[2].candidate.rules
                       THEN distance
                  ELSE s
            child1 == Slice(A, 0, sA) \cup Slice(B, sB, Len(B))
            child2 == Slice(B, 0, sB) \cup Slice(A, sA, Len(A))
        IN /\ op.returned = Ok(<<FromRules(child1), FromRules(child2)>>)
           /\ (Len(A) = 4 /\ Len(B) = 2 /\ s = 2 /\ op.mirroring = "never") =>
                /\ op.returned.value[1].rules = {A[1], A[2]}
                /\ op.returned.value[2].rules = {B[1], B[2], A[3], A[4]}

\* the pair of four and two rules has been mated at 2 without mirroring, and the
\* second child holds fewer than four rules' worth of distinct parents' rules
C12_Witness ==
    /\ op.kind = "single_point_at_index"
    /\ Len(op.ra) = 4
    /\ Len(op.rb) = 2
    /\ op.split_at = 2
    /\ op.mirroring = "never"
    /\ Cardinality(op.returned.value[1].rules) = 2
    /\ Cardinality(op.returned.value[2].rules) = 3

\* C13: for every pair, mating strategy and mirroring option crossover completes and
\* yields two offspring for the pair, also when a split index exceeds a parent's
\* rule count and when mirroring turns a segment into one whose start exceeds its end
C13_EveryPairYieldsTwoOffspring ==
    op.kind \in {"single_point_at_index", "single_point_at_percentage",
                 "multi_point_at_indices", "multi_point_at_percentages"} =>
        /\ op.returned.tag = "Ok"
        /\ Len(op.returned.value) = 2

\* no entry of the list equals another
NoDuplicates(list) ==
    \A j \in DOMAIN list : \A k \in DOMAIN list :
        CandidateFitnessEq(list[j], list[k]) => j = k

\* C14: under Disallow{retries}, for Tournament and Roulette, a successful selection
\* holds selection_size entries and no candidate twice, the call returns, and it
\* returns RngFail when selection_size exceeds the number of candidates
\* (EmptyCandidates for a tournament of no entrants); under Allow the call returns,
\* never with RngFail, and a successful selection holds selection_size entries, which
\* it is unless a tournament has no entrants
C14_DisallowEndsWithoutDuplicates ==
    op.kind = "select" =>
        LET strategy == op.strategy
            no_entrants == strategy.type = "tournament" /\ strategy.tournament_size = 0
        IN /\ op.returned.tag \in {"Ok", "Err"}
           /\ op.returned.tag = "Ok" => Len(op.returned.value) = strategy.selection_size
           /\ op.returned.tag = "Err" /\ ~no_entrants => op.returned = Err("RngFail")
           /\ strategy.duplicates.setting = "disallow" =>
                /\ op.returned.tag = "Ok" => NoDuplicates(op.returned.value)
                /\ strategy.selection_size > Len(op.candidates) =>
                      op.returned.tag = "Err"
           /\ strategy.duplicates.setting = "allow" =>
                /\ op.returned # Err("RngFail")
                /\ ~no_entrants \/ strategy.selection_size = 0 => op.returned.tag = "Ok"

----------------------------------------------------------------------------
(* ga_spec.rs: an initial-generation range parsed, then used by generate *)

\* the largest min and max of a range
MaxRange == 5

\* TryFrom<InitialGenerationComponentSpecShadow> for InitialGenerationComponentSpec
TryFrom(shadow) ==
    IF shadow.min = 0 /\ shadow.max = 0 THEN Err("MaxAndMinAreZero")
    ELSE IF shadow.min < shadow.max THEN Err("MaxIsLessThanMin")
    ELSE Ok(shadow)

\* rng.gen_range(low, high), which panics unless low < high
GenRangeChecked(low, high) ==
    IF low >= high THEN {Panic("gen_range")} ELSE {Ok(v) : v \in GenRange(low, high)}

\* the shadow read from the configuration, in ga_specs
ConfigInit ==
    /\ ga_specs \in [min : 0..MaxRange, max : 0..MaxRange, rng_fail_retries : 0..2]
    /\ op = NoOp
    /\ pc = "try_from"
    /\ ruleA = <<>>
    /\ ruleB = <<>>
    /\ population = <<>>
    /\ evolution = 0
    /\ fitness_values = <<>>
    /\ max = <<>>
    /\ selection = <<>>
    /\ offsprings = <<>>
    /\ result = <<>>

\* serde's try_from of the range
TryFromStep ==
    /\ pc = "try_from"
    /\ op' = [kind |-> "try_from", returned |-> TryFrom(ga_specs)]
    /\ pc' = IF TryFrom(ga_specs).tag = "Ok" THEN "generate" ELSE "done"
    /\ UNCHANGED <<evalVars, ga_specs, population, evolution, fitness_values, max,
                   selection, offsprings, result>>

\* the draw of the number of candidates, rules or constraints from an accepted range
\* (population.rs 90-93, candidate.rs 101-104, rule.rs 50-51)
NumberOfStep ==
    /\ pc = "generate"
    /\ \E number_of \in GenRangeChecked(op.returned.value.min, op.returned.value.max) :
          op' = [kind |-> "gen_range", returned |-> number_of]
    /\ pc' = "done"
    /\ UNCHANGED <<evalVars, ga_specs, population, evolution, fitness_values, max,
                   selection, offsprings, result>>

ConfigNext ==
    \/ TryFromStep
    \/ NumberOfStep

ConfigSpec == ConfigInit /\ [][ConfigNext]_vars

\* C15: a range {min, max, retries} is accepted iff min < max and min and max are not
\* both zero; max < min is rejected with MaxIsLessThanMin and {0, 0} with
\* MaxAndMinAreZero
C15_RangeAcceptedIffMinBelowMax ==
    op.kind = "try_from" =>
        /\ op.returned.tag = "Ok" <=>
              (ga_specs.min < ga_specs.max /\ ~(ga_specs.min = 0 /\ ga_specs.max = 0))
        /\ ga_specs.max < ga_specs.min => op.returned = Err("MaxIsLessThanMin")
        /\ (ga_specs.min = 0 /\ ga_specs.max = 0) => op.returned = Err("MaxAndMinAreZero")

----------------------------------------------------------------------------
(* Claims about the generations of a run, checked under Spec *)

\* C16: in every generation the list handed to crossover, the output of selection,
\* is sorted ascending by fitness, so that under NextFittest every pair (a, b) of the
\* matchup has fitness(a) <= fitness(b)
C16_SelectionIsSortedForMatchup ==
    pc = "crossover" =>
        /\ \A j \in DOMAIN selection : \A k \in DOMAIN selection :
              j < k => selection[j].fitness <= selection[k].fitness
        /\ ga_specs.crossover.matchup_strategy.type = "next_fittest" =>
              \A matchup \in Matchup(selection, ga_specs.crossover.matchup_strategy) :
                 matchup.tag = "Ok" =>
                    \A k \in DOMAIN matchup.value :
                       matchup.value[k][1].fitness <= matchup.value[k][2].fitness

\* C17: when a run has stopped at the optimum, the population it ends with holds a
\* candidate whose fitness is the number of training examples
C17_OptimumSurvivesTheGeneration ==
    (/\ pc = "done"
     /\ result.tag = "Ok"
     /\ ga_specs.stop_at_optimum_fitness
     /\ evolution < ga_specs.max_evolutions) =>
        \E c \in population.candidates :
            Ok(Len(Training)) \in CandidateFitnessOutcomes(c, Training)

----------------------------------------------------------------------------
(* mutation.rs: the three variants applied to one position of one rule *)

\* ConstraintRandomize with the values rng.gen_range gives laid out in draws: the loop
\* of mutation.rs 108-121 from draw k on, then the swap or the move
RECURSIVE ConstraintRandomizeWith(_, _, _, _, _, _, _)
ConstraintRandomizeWith(rule, constraint_key, variant, draws, k, swap, fails) ==
    LET rng_index == draws[k]
    IN IF rng_index \in DOMAIN rule
       THEN IF fails >= variant.retries THEN Err("RngFail")
            ELSE ConstraintRandomizeWith(rule, constraint_key, variant, draws, k + 1,
                                         swap \/ variant.swap_if_fail, fails + 1)
       ELSE IF swap THEN Ok(SwapKeys(rule, constraint_key, rng_index))
            ELSE Ok(MoveKey(rule, constraint_key, rng_index))

\* delta: isize
Deltas == {-1, 0, 1, 2, 3}

\* retries: usize
Retries == 0..2

\* a rule over the positions below max_index, in ruleA; the alphabet is "01" and
\* max_index runs from 1 to past the length of the alphabet
MutInit ==
    /\ ga_specs \in [max_index : 1..(MaxIndex + 1), alphabet : {Alphabet}]
    /\ ruleA \in RulesOver(0..(ga_specs.max_index - 1))
    /\ ruleB = <<>>
    /\ op = NoOp
    /\ pc = "idle"
    /\ population = <<>>
    /\ evolution = 0
    /\ fitness_values = <<>>
    /\ max = <<>>
    /\ selection = <<>>
    /\ offsprings = <<>>
    /\ result = <<>>

\* MutationStrategyVariant::ConstraintSwap at one position
ConstraintSwapCall ==
    /\ op.kind = "none"
    /\ \E constraint_key \in GenRange(0, ga_specs.max_index) : \E delta \in Deltas :
       \E returned \in ConstraintSwap(ruleA, constraint_key, delta, ga_specs.max_index) :
          op' = [kind |-> "constraint_swap", constraint_key |-> constraint_key,
                 delta |-> delta, returned |-> returned]
    /\ UNCHANGED <<evalVars, driverVars>>

\* MutationStrategyVariant::ConstraintRandomize at one position; the loop draws at
\* most retries + 1 times
ConstraintRandomizeCall ==
    /\ op.kind = "none"
    /\ \E constraint_key \in GenRange(0, ga_specs.max_index) :
       \E swap_if_fail \in BOOLEAN : \E retries \in Retries :
       \E draws \in [1..(retries + 1) -> GenRange(0, ga_specs.max_index)] :
          LET variant == [type |-> "constraint_randomize", swap_if_fail |-> swap_if_fail,
                          retries |-> retries]
          IN op' = [kind |-> "constraint_randomize", constraint_key |-> constraint_key,
                    variant |-> variant, draws |-> draws,
                    returned |-> ConstraintRandomizeWith(ruleA, constraint_key, variant,
                                                         draws, 1, FALSE, 0)]
    /\ UNCHANGED <<evalVars, driverVars>>

\* MutationStrategyVariant::ConstraintValueRandomize at one position
ConstraintValueRandomizeCall ==
    /\ op.kind = "none"
    /\ \E constraint_key \in GenRange(0, ga_specs.max_index) :
       \E returned \in ConstraintValueRandomize(ruleA, constraint_key, ga_specs.alphabet,
                                                ga_specs.max_index) :
          op' = [kind |-> "constraint_value_randomize",
                 constraint_key |-> constraint_key, returned |-> returned]
    /\ UNCHANGED <<evalVars, driverVars>>

MutNext ==
    \/ ConstraintSwapCall
    \/ ConstraintRandomizeCall
    \/ ConstraintValueRandomizeCall

MutSpec == MutInit /\ [][MutNext]_vars

----------------------------------------------------------------------------
(* Claims about the mutation variants, checked under MutSpec *)

\* the rule with the (possibly absent) values at positions p and q exchanged
Exchanged(rule, p, q) ==
    LET keys == (DOMAIN rule \ {p, q})
                    \cup (IF p \in DOMAIN rule THEN {q} ELSE {})
                    \cup (IF q \in DOMAIN rule THEN {p} ELSE {})
    IN [k \in keys |-> IF k = q THEN rule[p] ELSE IF k = p THEN rule[q] ELSE rule[k]]

\* C18: ConstraintSwap{delta} at position p exchanges the values at p and at
\* q = (p + delta) mod max_index; the number of constraints is unchanged and no
\* constraint ends at a position >= max_index
C18_SwapStaysBelowMaxIndex ==
    op.kind = "constraint_swap" =>
        LET p == op.constraint_key
            q == (p + op.delta) % ga_specs.max_index
        IN /\ op.returned = Ok(Exchanged(ruleA, p, q))
           /\ Cardinality(DOMAIN op.returned.value) = Cardinality(DOMAIN ruleA)
           /\ \A k \in DOMAIN op.returned.value : k < ga_specs.max_index

\* the draws of the loop that hit a constrained position, up to the first that did not
RECURSIVE Collisions(_, _, _)
Collisions(rule, draws, k) ==
    IF k > Len(draws) \/ draws[k] \notin DOMAIN rule THEN 0
    ELSE 1 + Collisions(rule, draws, k + 1)

\* C19: ConstraintRandomize{swap_if_fail, retries} at position p: a first draw of an
\* unconstrained position moves the value at p (if any) there; after a collision,
\* with swap_if_fail the values at p and at the colliding position are swapped and
\* the operator does not fail, and without it the operator redraws and fails with
\* RngFail only once the collisions exceed retries, moving the value to the first
\* free position drawn otherwise; a success leaves the number of constraints as it was
C19_RandomizeMovesOrSwaps ==
    op.kind = "constraint_randomize" =>
        LET p == op.constraint_key
            collisions == Collisions(ruleA, op.draws, 1)
        IN /\ collisions = 0 => op.returned = Ok(MoveKey(ruleA, p, op.draws[1]))
           /\ (collisions > 0 /\ op.variant.swap_if_fail) =>
                 op.returned = Ok(Exchanged(ruleA, p, op.draws[1]))
           /\ (collisions > 0 /\ ~op.variant.swap_if_fail) =>
                 op.returned = IF collisions > op.variant.retries THEN Err("RngFail")
                               ELSE Ok(MoveKey(ruleA, p, op.draws[collisions + 1]))
           /\ op.returned.tag = "Ok" =>
                 Cardinality(DOMAIN op.returned.value) = Cardinality(DOMAIN ruleA)

\* C20: ConstraintValueRandomize at a position removes an existing constraint or
\* sets the position to a symbol of the alphabet; an unconstrained position becomes
\* constrained; the operator never fails, for every max_index >= 1
C20_ValueRandomizeStaysInAlphabet ==
    op.kind = "constraint_value_randomize" =>
        LET p == op.constraint_key
        IN /\ op.returned.tag = "Ok"
           /\ \/ p \in DOMAIN ruleA /\ op.returned.value = MapRemove(ruleA, p)
              \/ \E c \in AlphabetSet : op.returned.value = MapInsert(ruleA, p, c)
           /\ p \notin DOMAIN ruleA => p \in DOMAIN op.returned.value

----------------------------------------------------------------------------
(* mutation.rs: one mutation pass over a population, with what each visit of the
   loop over the candidates produced kept beside the result *)

\* the most members of a population handed to one pass
MaxMembers == 2

\* the loop over the candidates (mutation.rs 58-191) as MutateCandidatesFrom runs it,
\* returning with the changes the list of the visits: whether the candidate's gate
\* let it through, whether an operator ran, and the candidate built from its rules
RECURSIVE MutateCandidatesTrace(_, _, _, _, _, _, _)
MutateCandidatesTrace(candidates, order, strategy, spec, k, changes, visits) ==
    IF k > Len(order) THEN {[changes |-> Ok(changes), visits |-> visits]}
    ELSE UNION {
        IF ~gate
        THEN MutateCandidatesTrace(candidates, order, strategy, spec, k + 1, changes,
                                   Append(visits, [gate |-> FALSE]))
        ELSE UNION {
            IF mutated.tag # "Ok" THEN {[changes |-> mutated, visits |-> visits]}
            ELSE LET new_candidate == FromRules(Collect(mutated.value.rules))
                 IN MutateCandidatesTrace(candidates, order, strategy, spec, k + 1,
                        IF mutated.value.ran
                           /\ CommitAllowed(new_candidate, order[k], candidates, changes)
                        THEN Append(changes, <<order[k], new_candidate>>)
                        ELSE changes,
                        Append(visits, [gate |-> TRUE, ran |-> mutated.value.ran,
                                        new_candidate |-> new_candidate]))
            : mutated \in MutateRulesFrom(SetToSeq(order[k].rules), strategy, spec, 1, FALSE)}
        : gate \in GenRatio(UnwrapOrDefault(strategy.options.chance_per_candidate), 100)}

\* the members of the populations: candidates of the pool, born in generation 1
PassMembers ==
    {SetBirthGenerationId(c, 1) : c \in PoolCandidates}

\* the mutation strategies of the passes: the chance unset, 0, 50 or 100, every
\* candidate gate at 50, every rule and constraint gate at 100
PassStrategies ==
    {MutationStrategy(chance, Some(50), Some(100), Some(100), variant)
     : chance \in {Nothing, Some(0), Some(50), Some(100)},
       variant \in {[type |-> "constraint_swap", delta |-> 1],
                    [type |-> "constraint_randomize", swap_if_fail |-> FALSE,
                     retries |-> 1],
                    [type |-> "constraint_value_randomize"]}}

PassInit ==
    /\ population \in {[candidates |-> members, generation |-> 2]
                       : members \in {P \in SUBSET PassMembers :
                                          Cardinality(P) <= MaxMembers}}
    /\ ga_specs \in {[mutation |-> strategy, max_index |-> Width(Training),
                      alphabet |-> Alphabet] : strategy \in PassStrategies}
    /\ op = NoOp
    /\ pc = "idle"
    /\ ruleA = <<>>
    /\ ruleB = <<>>
    /\ evolution = 0
    /\ fitness_values = <<>>
    /\ max = <<>>
    /\ selection = <<>>
    /\ offsprings = <<>>
    /\ result = <<>>

\* mutate returning before the loop: chance 0 or unset (mutation.rs 45-47)
MutateChanceZero ==
    /\ op.kind = "none"
    /\ UnwrapOrDefault(ga_specs.mutation.options.chance) = 0
    /\ op' = [kind |-> "mutate", before |-> population, entered |-> FALSE,
              returned |-> Ok(population.candidates)]
    /\ UNCHANGED <<evalVars, driverVars>>

\* mutate returning before the loop: the gate of the pass closed (mutation.rs 51-53)
MutateGateClosed ==
    /\ op.kind = "none"
    /\ UnwrapOrDefault(ga_specs.mutation.options.chance) # 0
    /\ FALSE \in GenRatio(UnwrapOrDefault(ga_specs.mutation.options.chance), 100)
    /\ op' = [kind |-> "mutate", before |-> population, entered |-> FALSE,
              returned |-> Ok(population.candidates)]
    /\ UNCHANGED <<evalVars, driverVars>>

\* mutate running the loop over the candidates and applying the changes
MutatePass ==
    /\ op.kind = "none"
    /\ UnwrapOrDefault(ga_specs.mutation.options.chance) # 0
    /\ TRUE \in GenRatio(UnwrapOrDefault(ga_specs.mutation.options.chance), 100)
    /\ \E order \in Perms(population.candidates) :
       \E trace \in MutateCandidatesTrace(population.candidates, order, ga_specs.mutation,
                                          ga_specs, 1, <<>>, <<>>) :
          LET returned == IF trace.changes.tag # "Ok" THEN trace.changes
                          ELSE Ok(ApplyChanges(population.candidates,
                                               trace.changes.value, 1))
          IN /\ op' = [kind |-> "mutate", before |-> population, entered |-> TRUE,
                       order |-> order, visits |-> trace.visits,
                       changes |-> trace.changes, returned |-> returned]
             /\ population' = IF returned.tag = "Ok"
                              THEN [population EXCEPT !.candidates = returned.value]
                              ELSE population
    /\ UNCHANGED <<evalVars, ga_specs, pc, evolution, fitness_values, max, selection,
                   offsprings, result>>

PassNext ==
    \/ MutateChanceZero
    \/ MutateGateClosed
    \/ MutatePass

PassSpec == PassInit /\ [][PassNext]_vars

----------------------------------------------------------------------------
(* Claims about the mutation pass, checked under PassSpec *)

\* the visits up to the k-th whose mutated candidate differs from its original, is
\* no member of the population the pass began with, and equals no mutated candidate
\* of an earlier visit of this set
RECURSIVE Replacing(_, _, _, _)
Replacing(before, order, visits, k) ==
    IF k = 0 THEN {}
    ELSE LET earlier == Replacing(before, order, visits, k - 1)
         IN IF /\ visits[k].gate
               /\ ~CandidateEq(visits[k].new_candidate, order[k])
               /\ ~Contains(before, visits[k].new_candidate)
               /\ \A j \in earlier :
                     ~CandidateEq(visits[j].new_candidate, visits[k].new_candidate)
            THEN earlier \cup {k}
            ELSE earlier

\* C21: in a mutation pass a mutated candidate replaces its original iff it differs
\* from it, is no member of the population and equals no pending result of an
\* earlier visit; each commit removes the original and inserts the mutated
\* candidate, every other member stays as it was, and a pass whose chance is 0 or
\* unset (or whose gate is closed) changes nothing
C21_CommitReplacesOriginalOnly ==
    (op.kind = "mutate" /\ op.returned.tag = "Ok") =>
        IF ~op.entered THEN population = op.before
        ELSE LET before == op.before.candidates
                 commits == Replacing(before, op.order, op.visits, Len(op.order))
             IN /\ Len(op.changes.value) = Cardinality(commits)
                /\ \A k \in commits :
                      /\ op.order[k] \notin population.candidates
                      /\ op.visits[k].new_candidate \in population.candidates
                /\ \A k \in DOMAIN op.order \ commits :
                      op.order[k] \in population.candidates
                /\ population.candidates
                       = (before \ {op.order[k] : k \in commits})
                             \cup {op.visits[k].new_candidate : k \in commits}
                /\ population.generation = op.before.generation

\* a pass in which two candidates were mutated into the same new candidate: the
\* first visited was replaced, the second stayed
C21_Witness ==
    /\ op.kind = "mutate"
    /\ op.returned.tag = "Ok"
    /\ op.entered
    /\ Len(op.changes.value) = 1
    /\ \E j, k \in DOMAIN op.visits :
          /\ j < k
          /\ op.visits[j].gate /\ op.visits[k].gate
          /\ CandidateEq(op.visits[j].new_candidate, op.visits[k].new_candidate)
          /\ op.changes.value[1] = <<op.order[j], op.visits[j].new_candidate>>
          /\ ~CandidateEq(op.visits[k].new_candidate, op.order[k])
          /\ op.order[k] \in population.candidates
          /\ op.order[j] \notin population.candidates

\* C22: whenever the mutation pass commits a change to a candidate, the candidate
\* that takes its place has a mutation counter one greater than the original's; the
\* members the pass does not change keep their counter
C22_CommitIncrementsMutationCount ==
    (op.kind = "mutate" /\ op.returned.tag = "Ok" /\ op.entered) =>
        /\ \A k \in DOMAIN op.changes.value :
              \A member \in population.candidates :
                 CandidateEq(member, op.changes.value[k][2]) =>
                    member.mutation_count = op.changes.value[k][1].mutation_count + 1
        /\ \A member \in op.before.candidates :
              (\A k \in DOMAIN op.changes.value : op.changes.value[k][1] # member) =>
                 member \in population.candidates

\* C30: at every point of a run every member of the population has a birth
\* generation id that is set and is at most the population's generation counter
\* (so its age is defined and not negative), candidates inserted by the mutation
\* pass included
C30_BirthGenerationIsSet ==
    \A member \in population.candidates :
       /\ member.birth_generation_id # Nothing
       /\ member.birth_generation_id[1] <= population.generation

\* the segment (lo, hi) selects some but not all of the rules of a parent
ProperPart(seq, lo, hi) ==
    /\ Slice(seq, lo, hi) # {}
    /\ Slice(seq, lo, hi) # Slice(seq, 0, Len(seq))

\* C23: under MultiPointAtIndices and MultiPointAtPercentages child 1 accumulates,
\* segment by segment, A's slice of the segment with B's slice, and child 2 the
\* rules child 1 did not receive: for parents with pairwise distinct rules and a
\* segment selecting a non-empty proper part of each parent the two children are
\* different rule sets; a segment (start, end) with start > end selects the rules
\* that (end, start) selects.  Stated here for the pairs that are not mirrored
C23_MultiPointChildrenAreComplements ==
    (/\ op.kind \in {"multi_point_at_indices", "multi_point_at_percentages"}
     /\ op.mirroring = "never") =>
        LET A == op.ra
            B == op.rb
            Index(at, seq) == IF op.kind = "multi_point_at_indices" THEN at
                              ELSE (at * Len(seq)) \div 100
            Lo(k, seq) == Min(Index(op.split_at[k][1], seq), Index(op.split_at[k][2], seq))
            Hi(k, seq) == Max(Index(op.split_at[k][1], seq), Index(op.split_at[k][2], seq))
            child1 == UNION {Slice(A, Lo(k, A), Hi(k, A)) \cup Slice(B, Lo(k, B), Hi(k, B))
                             : k \in DOMAIN op.split_at}
        IN /\ op.returned.tag = "Ok"
           /\ op.returned.value[1].rules = child1
           /\ (/\ Collect(A) \cap Collect(B) = {}
               /\ Len(A) = Cardinality(Collect(A))
               /\ Len(B) = Cardinality(Collect(B))
               /\ \E k \in DOMAIN op.split_at :
                     /\ ProperPart(A, Lo(k, A), Hi(k, A))
                     /\ ProperPart(B, Lo(k, B), Hi(k, B)))
                 => op.returned.value[1].rules # op.returned.value[2].rules

\* C24: under SinglePointAtPercentage and MultiPointAtPercentages a percentage p
\* gives the index floor(p / 100 x |rules|) in each parent; a percentage over 100 is
\* applied as it is, the index passing the rule count (prefix all rules, suffix
\* none), under every mirroring option and without an error
C24_PercentageOverHundredIsApplied ==
    /\ (op.kind = "single_point_at_percentage" /\ op.split_at > 100) =>
          op.returned.tag = "Ok"
    /\ (/\ op.kind = "multi_point_at_percentages"
        /\ \E k \in DOMAIN op.split_at : op.split_at[k][1] > 100 \/ op.split_at[k][2] > 100) =>
          op.returned.tag = "Ok"
    /\ (op.kind = "single_point_at_percentage" /\ op.mirroring = "never") =>
          LET sA == (op.split_at * Len(op.ra)) \div 100
              sB == (op.split_at * Len(op.rb)) \div 100
          IN /\ op.returned.value[1].rules
                   = Slice(op.ra, 0, sA) \cup Slice(op.rb, sB, Len(op.rb))
             /\ op.returned.value[2].rules
                   = Slice(op.rb, 0, sB) \cup Slice(op.ra, sA, Len(op.ra))

\* the first index (from 1) of the list whose prefix fitness sum exceeds r
RECURSIVE FirstExceeding(_, _, _, _)
FirstExceeding(list, r, k, sum) ==
    IF sum + list[k].fitness > r THEN k ELSE FirstExceeding(list, r, k + 1, sum + list[k].fitness)

\* C25: the roulette draws one r in [0, total fitness) per call and keeps one
\* accumulator: the first pick is the first candidate in list order whose prefix
\* fitness sum exceeds r, never one of fitness 0, and every candidate of positive
\* fitness can be the first pick; every later pass picks the first candidate of
\* the list
C25_RouletteKeepsOneDrawAndOneSum ==
    (/\ op.kind = "select"
     /\ op.strategy.type = "roulette"
     /\ SumFitness(op.candidates) > 0) =>
        /\ \A k \in DOMAIN op.candidates :
              op.candidates[k].fitness > 0 =>
                 \E r \in 0..(SumFitness(op.candidates) - 1) :
                    RouletteScan(op.candidates, r, 1, 0).selected = k
        /\ op.returned.tag = "Ok" =>
              \E r \in 0..(SumFitness(op.candidates) - 1) :
                 \A i \in DOMAIN op.returned.value :
                    /\ i = 1 =>
                          /\ op.returned.value[i]
                                = op.candidates[FirstExceeding(op.candidates, r, 1, 0)]
                          /\ op.returned.value[i].fitness > 0
                    /\ i > 1 => op.returned.value[i] = op.candidates[1]
        /\ op.strategy.duplicates = Allow =>
              /\ op.returned.tag = "Ok"
              /\ Len(op.returned.value) = op.strategy.selection_size

\* a roulette selection of two or more whose first pick is not the first candidate
\* of the list and whose later picks all are
C25_Witness ==
    /\ op.kind = "select"
    /\ op.strategy.type = "roulette"
    /\ op.returned.tag = "Ok"
    /\ Len(op.returned.value) >= 2
    /\ op.returned.value[1] # op.candidates[1]
    /\ op.returned.value[2] = op.candidates[1]
    /\ op.candidates[1].fitness = 0

\* the earliest of the draws of a round at which the greatest fitness drawn stands
EarliestBest(list, drawn) ==
    CHOOSE j \in DOMAIN drawn :
       /\ \A k \in DOMAIN drawn : list[drawn[k] + 1].fitness <= list[drawn[j] + 1].fitness
       /\ \A k \in 1..(j - 1) : list[drawn[k] + 1].fitness < list[drawn[j] + 1].fitness

\* C26: a successful tournament selection returns selection_size entries; each is
\* the candidate of greatest fitness among the tournament_size indices drawn in its
\* round, the earliest drawn among those of equal greatest fitness; a round of a
\* tournament of size 0 fails the call with EmptyCandidates
C26_TournamentKeepsEarliestBest ==
    op.kind = "tournament_select" =>
        /\ op.returned.tag = "Ok" =>
              /\ Len(op.returned.value) = op.strategy.selection_size
              /\ Len(op.rounds) = op.strategy.selection_size
              /\ \A i \in DOMAIN op.returned.value :
                    /\ Len(op.rounds[i]) = op.strategy.tournament_size
                    /\ op.rounds[i] # <<>>
                    /\ op.returned.value[i]
                          = op.candidates[op.rounds[i][EarliestBest(op.candidates,
                                                                    op.rounds[i])] + 1]
        /\ (op.strategy.tournament_size = 0 /\ op.strategy.selection_size > 0) =>
              op.returned = Err("EmptyCandidates")

\* a round of two draws of equal fitness at different candidates: the first drawn
\* is the entry
C26_Witness ==
    /\ op.kind = "tournament_select"
    /\ op.returned.tag = "Ok"
    /\ op.strategy.tournament_size = 2
    /\ \E i \in DOMAIN op.rounds :
          /\ op.rounds[i][1] # op.rounds[i][2]
          /\ op.candidates[op.rounds[i][1] + 1].fitness
                = op.candidates[op.rounds[i][2] + 1].fitness
          /\ op.returned.value[i] = op.candidates[op.rounds[i][1] + 1]

\* C27: for a list of length len >= 1 NextFittest yields the len - 1 pairs
\* (list[i], list[i+1]) and LeastFittest the len - 1 pairs (list[i], list[len-1-i]),
\* i = 0..len-2, in that order; the last element is never the first member of a
\* pair; neither fails
C27_FittestMatchupsPairByPosition ==
    (/\ op.kind = "matchup"
     /\ op.strategy.type \in {"next_fittest", "least_fittest"}
     /\ Len(op.candidates) >= 1) =>
        LET list == op.candidates
            len == Len(list)
        IN /\ op.returned.tag = "Ok"
           /\ Len(op.returned.value) = len - 1
           /\ \A i \in 0..(len - 2) :
                 op.returned.value[i + 1]
                    = IF op.strategy.type = "next_fittest"
                      THEN <<list[i + 1], list[i + 2]>>
                      ELSE <<list[i + 1], list[len - i]>>
           /\ \A k \in DOMAIN op.returned.value : op.returned.value[k][1] # list[len]

\* LeastFittest has paired a list of three: (first, last) and (second, second)
C27_Witness ==
    /\ op.kind = "matchup"
    /\ op.strategy.type = "least_fittest"
    /\ Len(op.candidates) = 3
    /\ op.returned = Ok(<<<<op.candidates[1], op.candidates[3]>>,
                          <<op.candidates[2], op.candidates[2]>>>>)

\* C28: the random matchup fails, with
\* CantGenerateNonAsexualMatchupWithOneCandidate, iff allow_asexual is false and the
\* list has exactly one candidate; for two or more candidates it succeeds; without
\* allow_asexual no pair joins a position of the list with itself, and without
\* allow_duplicates no pair is produced twice
C28_RandomMatchupFailsOnlyOnLoneCandidate ==
    (op.kind = "matchup" /\ op.strategy.type = "random") =>
        LET lone == ~op.strategy.allow_asexual /\ Len(op.candidates) = 1
        IN /\ op.returned.tag # "Ok" <=> lone
           /\ lone => op.returned = Err("CantGenerateNonAsexualMatchupWithOneCandidate")
           /\ op.returned.tag = "Ok" =>
                 /\ ~op.strategy.allow_asexual =>
                       \A k \in DOMAIN op.returned.value :
                          op.returned.value[k][1] # op.returned.value[k][2]
                 /\ ~op.strategy.allow_duplicates =>
                       \A j, k \in DOMAIN op.returned.value :
                          op.returned.value[j] = op.returned.value[k] => j = k

----------------------------------------------------------------------------
(* rule.rs, candidate.rs, population.rs: the three generate routines, each called
   once on a specification drawn in the initial state *)

\* the loop of Rule::generate (rule.rs 55-68) as RuleGenerateLoop runs it, returning
\* with the constraints the value of consecutive_fails the loop was left with
RECURSIVE RuleGenerateTrace(_, _, _, _)
RuleGenerateTrace(spec, number_of_constraints, constraints, consecutive_fails) ==
    IF Cardinality(DOMAIN constraints) >= number_of_constraints
    THEN {[constraints |-> constraints, consecutive_fails |-> consecutive_fails]}
    ELSE UNION {
        IF index \in DOMAIN constraints
        THEN IF consecutive_fails + 1 >= spec.max_rule_generation_consecutive_fail
             THEN {[constraints |-> constraints,
                    consecutive_fails |-> consecutive_fails + 1]}
             ELSE RuleGenerateTrace(spec, number_of_constraints, constraints,
                                    consecutive_fails + 1)
        ELSE UNION {
            RuleGenerateTrace(spec, number_of_constraints,
                              MapInsert(constraints, index, spec.alphabet[character_index + 1]), 0)
            : character_index \in GenRange(0, Len(spec.alphabet))}
        : index \in GenRange(0, spec.max_index)}

\* the specifications handed to the routines: inputs 1 or 2 wide, 1 or 2 constraints
\* in a rule, up to 2 rules in a candidate, up to 2 candidates in a population or
\* the empty range {min: 1, max: 0}, and caps of 1 or 2 collisions for the
\* constraints and for the rules.  Rule::generate reads max_rule_generation_consecutive_fail,
\* the cap of the rules (popgenspec.rs 8), not that of the constraints
\* (popgenspec.rs 12)
GenerateSpecs ==
    {[initial_generation |->
         [candidates |-> candidates,
          rules |-> [min |-> 0, max |-> 3, rng_fail_retries |-> rule_cap],
          constraints |-> [min |-> 1, max |-> 3, rng_fail_retries |-> constraint_cap]],
      min_rule_constraints |-> 1,
      max_rule_constraints |-> 3,
      max_rule_generation_consecutive_fail |-> rule_cap,
      max_rule_constraint_generation_consecutive_fail |-> constraint_cap,
      alphabet |-> Alphabet,
      max_index |-> max_index]
     : candidates \in {[min |-> 0, max |-> 3, rng_fail_retries |-> 1],
                       [min |-> 1, max |-> 0, rng_fail_retries |-> 1]},
       rule_cap \in 1..2, constraint_cap \in 1..2, max_index \in 1..2}

GenInit ==
    /\ ga_specs \in GenerateSpecs
    /\ op = NoOp
    /\ pc = "idle"
    /\ ruleA = <<>>
    /\ ruleB = <<>>
    /\ population = <<>>
    /\ evolution = 0
    /\ fitness_values = <<>>
    /\ max = <<>>
    /\ selection = <<>>
    /\ offsprings = <<>>
    /\ result = <<>>

\* Rule::generate(&mut rng, spec)
RuleGenerateCall ==
    /\ op.kind = "none"
    /\ \E number_of_constraints \in GenRangeChecked(ga_specs.min_rule_constraints,
                                                    ga_specs.max_rule_constraints) :
          IF number_of_constraints.tag # "Ok"
          THEN op' = [kind |-> "rule_generate", returned |-> number_of_constraints]
          ELSE \E trace \in RuleGenerateTrace(ga_specs, number_of_constraints.value, <<>>, 0) :
                  op' = [kind |-> "rule_generate", target |-> number_of_constraints.value,
                         consecutive_fails |-> trace.consecutive_fails,
                         returned |-> Ok(trace.constraints)]
    /\ UNCHANGED <<evalVars, driverVars>>

\* Candidate::generate(&mut rng, spec)
CandidateGenerateCall ==
    /\ op.kind = "none"
    /\ \E number_of_rules \in GenRangeChecked(ga_specs.initial_generation.rules.min,
                                              ga_specs.initial_generation.rules.max) :
          IF number_of_rules.tag # "Ok"
          THEN op' = [kind |-> "candidate_generate", returned |-> number_of_rules]
          ELSE \E rules \in CandidateGenerateLoop(ga_specs, RuleGenerate(ga_specs),
                                                  number_of_rules.value, {}, 0) :
                  op' = [kind |-> "candidate_generate", target |-> number_of_rules.value,
                         returned |-> Ok([rules |-> rules, mutation_count |-> 0,
                                          birth_generation_id |-> Nothing])]
    /\ UNCHANGED <<evalVars, driverVars>>

\* Population::generate(spec)
PopulationGenerateCall ==
    /\ op.kind = "none"
    /\ \E number_of_candidates \in
             GenRangeChecked(ga_specs.initial_generation.candidates.min,
                             ga_specs.initial_generation.candidates.max) :
          IF number_of_candidates.tag # "Ok"
          THEN /\ op' = [kind |-> "population_generate", returned |-> number_of_candidates]
               /\ population' = population
          ELSE \E candidates \in PopulationGenerateLoop(ga_specs, CandidateGenerate(ga_specs),
                                                        number_of_candidates.value, {}, 0) :
                  /\ op' = [kind |-> "population_generate",
                            target |-> number_of_candidates.value,
                            returned |-> Ok(candidates)]
                  /\ population' = [candidates |-> candidates, generation |-> 1]
    /\ UNCHANGED <<evalVars, ga_specs, pc, evolution, fitness_values, max, selection,
                   offsprings, result>>

GenNext ==
    \/ RuleGenerateCall
    \/ CandidateGenerateCall
    \/ PopulationGenerateCall

GenSpec == GenInit /\ [][GenNext]_vars

----------------------------------------------------------------------------
(* Claims about the generate routines, checked under GenSpec *)

\* C29: Rule::generate, Candidate::generate and Population::generate never fail;
\* each draws a target in [min, max), and returns between 0 and target pairwise
\* distinct items, fewer than target only when the consecutive collisions have
\* reached the routine's own cap: for Rule::generate the cap of the constraints
C29_GenerateStopsAtOwnCap ==
    op.kind \in {"rule_generate", "candidate_generate", "population_generate"} =>
        /\ op.returned.tag = "Ok"
        /\ op.kind = "rule_generate" =>
              /\ op.target \in ga_specs.initial_generation.constraints.min
                                  ..(ga_specs.initial_generation.constraints.max - 1)
              /\ Cardinality(DOMAIN op.returned.value) <= op.target
              /\ Cardinality(DOMAIN op.returned.value) < op.target =>
                    op.consecutive_fails
                       = ga_specs.initial_generation.constraints.rng_fail_retries
        /\ op.kind = "candidate_generate" =>
              /\ op.target \in ga_specs.initial_generation.rules.min
                                  ..(ga_specs.initial_generation.rules.max - 1)
              /\ Cardinality(op.returned.value.rules) <= op.target
        /\ op.kind = "population_generate" =>
              /\ op.target \in ga_specs.initial_generation.candidates.min
                                  ..(ga_specs.initial_generation.candidates.max - 1)
              /\ Cardinality(op.returned.value) <= op.target
              /\ \A c, d \in op.returned.value : CandidateEq(c, d) => c = d

============================================================================
